---- MODULE Spec2Model ----
(***************************************************************************)
(* Damage tracking of knopp/engine: DamageArea and DamageContext           *)
(* (flow/damage_context.{h,cc}) with the BackdropFilterLayer delegate      *)
(* (flow/layers/backdrop_filter_layer.cc), and the consumers of the damage *)
(* on the platforms: GPUSurfaceMetal (shell/gpu/gpu_surface_metal.mm),     *)
(* AndroidEGLSurfaceDamage (shell/platform/android/android_context_gl.cc)  *)
(* and the ResizeSynchronizer of the macOS FlutterView.                    *)
(*                                                                         *)
(* Coordinates.  An SkRect holds real coordinates; here a real coordinate  *)
(* is an integer number of sub-pixel units, Subpixel units to the pixel.   *)
(* An SkIRect holds whole pixels.  roundOut converts the first to the      *)
(* second (floor of left/top, ceiling of right/bottom) and SkRect::Make    *)
(* the second to the first.                                                *)
(***************************************************************************)
EXTENDS Integers, Sequences, FiniteSets, TLC

\* ------------------------------------------------------------------ bounds
Subpixel == 2        \* sub-pixel units per pixel
MaxEntries == 2      \* records appended to layer_entries_ between two FinishFrame
MaxDelegates == 2    \* delegate registrations per frame
MaxRects == 3        \* AddRect calls on the stand-alone DamageArea
MaxPasses == 4       \* iterations of the do-while of FinishDelegates that are followed
MaxCount == 62       \* values of no_change_frame_count that are followed
MaxSubmits == 3      \* frames submitted to the GPUSurfaceMetal
MaxSwaps == 3        \* frames passed to SwapBuffersWithDamage
MaxResizes == 3      \* calls of ResizeSynchronizer::BeginResize
MaxBlocks == 2       \* commit blocks waiting in the main queue

VARIABLES
  bounds_,                   \* DamageArea::bounds_ of the stand-alone area
  added,                     \* history: the rectangles passed to its AddRect
  scene,                     \* the inputs the embedder may pass (fixed by Init)
  pc,                        \* "idle", or "delegates" inside FinishFrame
  previous_frame_,           \* DamageContext::previous_frame_ (NoFrame = nullptr)
  current_layer_tree_size_,  \* DamageContext::current_layer_tree_size_
  layer_entries_,            \* DamageContext::layer_entries_
  delegates_,                \* DamageContext::delegates_
  handles,                   \* the handles returned for the records of layer_entries_
  delegate_state,            \* the fields of every Delegate object
  res,                       \* the DamageResult FinishFrame is building
  passes,                    \* iterations of the do-while of FinishDelegates done
  held,                      \* the FrameDescription the caller retained
  last,                      \* history: what the last FinishFrame saw and returned
  shared_state_,             \* BackdropFilterLayer::shared_state_ of every layer object
  shared,                    \* the BackdropFilterLayerSharedState objects made so far
  damage_,                   \* GPUSurfaceMetal::damage_
  frames,                    \* the SurfaceFrames acquired and not yet submitted
  submits,                   \* history: the frames submitted, oldest first
  has_buffer_age_,           \* AndroidEGLSurfaceDamage::has_buffer_age_
  set_damage_region,         \* its set_damage_region ("nullptr" or the EGL entry point)
  swap_buffers_with_damage,  \* its swap_buffers_with_damage (likewise)
  damage_history_,           \* its damage_history_, oldest first
  swaps,                     \* history: the damage of every frame swapped, oldest first
  egl,                       \* the last call it made into EGL with rectangles
  initial,                   \* the last InitialDamage: buffer age, frames swapped, result
  cookie_,                   \* ResizeSynchronizer::cookie_
  in_run_loop_,              \* ResizeSynchronizer::in_run_loop_
  accepting_,                \* ResizeSynchronizer::accepting_
  waiting_,                  \* ResizeSynchronizer::waiting_
  pending_commit_,           \* ResizeSynchronizer::pending_commit_
  delegate_,                 \* ResizeSynchronizer::delegate_ is not nil
  platform,                  \* platform thread: "idle", or "CFRunLoopRun" inside BeginResize
  raster,                    \* raster thread: "idle", or "wait" in cond_run_.wait of Commit
  notified,                  \* cond_run_ was notified since the raster thread began to wait
  main_queue,                \* the cookies of the commit blocks in the main queue
  raster_queue,              \* the cookies of the blocks scheduled on the raster thread
  resize,                    \* history: what happened since the last BeginResize began
  commit,                    \* history: what happened since the last Commit was accepted
  block                      \* history: the last commit block the main queue ran

\* the variables of DamageArea and DamageContext
damageVars == <<bounds_, added, scene, pc, previous_frame_, current_layer_tree_size_,
                layer_entries_, delegates_, handles, delegate_state, res, passes, held,
                last>>

\* the variables of the BackdropFilterLayers and of GPUSurfaceMetal
backdropVars == <<shared_state_, shared>>
metalVars == <<damage_, frames, submits>>

\* the variables of AndroidEGLSurfaceDamage
eglVars == <<has_buffer_age_, set_damage_region, swap_buffers_with_damage,
             damage_history_, swaps, egl, initial>>

\* the variables outside DamageArea and DamageContext
\* the variables of the ResizeSynchronizer and of its two threads
resizeVars == <<cookie_, in_run_loop_, accepting_, waiting_, pending_commit_, delegate_,
                platform, raster, notified, main_queue, raster_queue, resize, commit,
                block>>

outerVars == <<backdropVars, metalVars, eglVars, resizeVars>>

\* what a step of one part leaves alone
exceptBackdrop == <<metalVars, eglVars, resizeVars>>
exceptMetal == <<damageVars, backdropVars, eglVars, resizeVars>>
exceptEGL == <<damageVars, backdropVars, metalVars, resizeVars>>
exceptResize == <<damageVars, backdropVars, metalVars, eglVars>>

vars == <<bounds_, added, scene, pc, previous_frame_, current_layer_tree_size_,
          layer_entries_, delegates_, handles, delegate_state, res, passes, held, last,
          outerVars>>

ctxVars == <<scene, pc, previous_frame_, current_layer_tree_size_,
             layer_entries_, delegates_, handles, delegate_state, res, passes, held, last,
             outerVars>>

\* ------------------------------------------------------------- rectangles
Min(a, b) == IF a < b THEN a ELSE b
Max(a, b) == IF a > b THEN a ELSE b

Rect(l, t, r, b) == [left |-> l, top |-> t, right |-> r, bottom |-> b]

\* an SkRect given in whole pixels
PxRect(l, t, r, b) == Rect(l * Subpixel, t * Subpixel, r * Subpixel, b * Subpixel)

\* SkRect::MakeEmpty(), SkIRect::MakeEmpty()
MakeEmpty == Rect(0, 0, 0, 0)

\* SkRect::isEmpty(), SkIRect::isEmpty(): !(left < right && top < bottom)
isEmpty(r) == ~(r.left < r.right /\ r.top < r.bottom)

\* SkRect::intersects(r): the intersection has positive width and height
intersects(a, b) ==
  /\ Max(a.left, b.left) < Min(a.right, b.right)
  /\ Max(a.top, b.top) < Min(a.bottom, b.bottom)

\* SkRect::intersect(r): narrows to the intersection; when the two do not
\* intersect it returns false and leaves the rectangle as it was
intersect(a, b) ==
  IF intersects(a, b)
    THEN Rect(Max(a.left, b.left), Max(a.top, b.top),
              Min(a.right, b.right), Min(a.bottom, b.bottom))
    ELSE a

\* SkRect::join(r), SkIRect::join(r): an empty r is ignored, an empty
\* receiver becomes r, otherwise the bounding box of both
join(a, r) ==
  IF isEmpty(r) THEN a
  ELSE IF isEmpty(a) THEN r
  ELSE Rect(Min(a.left, r.left), Min(a.top, r.top),
            Max(a.right, r.right), Max(a.bottom, r.bottom))

\* SkRect::roundOut(&irect): floor of left/top, ceiling of right/bottom
\* (\div rounds toward minus infinity)
roundOut(r) ==
  Rect(r.left \div Subpixel, r.top \div Subpixel,
       -((-r.right) \div Subpixel), -((-r.bottom) \div Subpixel))

\* rounding toward the inside: ceiling of left/top, floor of right/bottom
roundIn(r) ==
  Rect(-((-r.left) \div Subpixel), -((-r.top) \div Subpixel),
       r.right \div Subpixel, r.bottom \div Subpixel)

\* SkRect::Make(const SkIRect&)
MakeFromIRect(ir) == PxRect(ir.left, ir.top, ir.right, ir.bottom)

\* SkRect::MakeIWH(w, h)
MakeIWH(w, h) == PxRect(0, 0, w, h)

\* the region of `inner` lies in the region of `outer` (an empty rectangle
\* has no points)
Contains(outer, inner) ==
  \/ isEmpty(inner)
  \/ /\ ~isEmpty(outer)
     /\ outer.left <= inner.left /\ outer.top <= inner.top
     /\ inner.right <= outer.right /\ inner.bottom <= outer.bottom

\* the two rectangles cover the same region
SameRegion(a, b) == (isEmpty(a) /\ isEmpty(b)) \/ a = b

\* ------------------------------------------------------------- DamageArea
\* a faulty AddRect(const SkRect&): overwrites bounds_ instead of joining
AddRect_overwrite(area, rect) == roundOut(rect)

\* a faulty AddRect(const SkRect&): rounds to the inside
AddRect_roundIn(area, rect) == join(area, roundIn(rect))

\* DamageArea::AddRect(const SkRect&), on the value of bounds_
AddRect(area, rect) == join(area, roundOut(rect))

\* DamageArea::AddRect(const SkIRect&)
AddIRect(area, irect) == join(area, irect)

\* a rectangle handed to one of the two AddRect overloads
RealArg(r) == [real |-> TRUE, rect |-> r]
IntArg(r) == [real |-> FALSE, rect |-> r]

AddArg(area, a) == IF a.real THEN AddRect(area, a.rect) ELSE AddIRect(area, a.rect)

\* the pixels an argument covers, as the integer rectangle that must be damaged
ArgPixels(a) == IF a.real THEN roundOut(a.rect) ELSE a.rect

\* the real rectangles offered to AddRect(const SkRect&): whole-pixel ones,
\* one with sub-pixel edges, one with a negative sub-pixel edge, empty ones
AreaRealRects ==
  { PxRect(0, 0, 10, 10), PxRect(5, 5, 15, 15),
    Rect(1, 1, 2 * Subpixel + 1, 3 * Subpixel + 1),
    Rect(-1, -1, 1, 1),
    PxRect(7, 7, 7, 7) }

\* the integer rectangles offered to AddRect(const SkIRect&)
AreaIntRects == { Rect(20, 20, 30, 30), Rect(12, 3, 12, 9) }

\* ------------------------------------------------------- values of a frame
\* SkISize
Size(w, h) == [width |-> w, height |-> h]

\* SkISize::isEmpty(): width <= 0 || height <= 0
SizeIsEmpty(s) == s.width <= 0 \/ s.height <= 0

\* DamageContext::DamageSource
kThisFrame == "kThisFrame"
kPreviousFrame == "kPreviousFrame"

\* a Layer object: `id` is its address, `content` what its comparator reads
\* (filter_ of a BackdropFilterLayer)
Layer(id, content) == [id |-> id, content |-> content]

\* a MutatorNode object: `id` is its address, `value` what operator!= reads
MutatorNode(id, value) == [id |-> id, value |-> value]

\* SkMatrix, restricted to translations
Matrix(tx, ty) == [tx |-> tx, ty |-> ty]

\* SkMatrix::mapRect(rect)
mapRect(m, r) == Rect(r.left + m.tx, r.top + m.ty, r.right + m.tx, r.bottom + m.ty)

\* the arguments of one AddLayerContribution call; `mutators` is the chain
\* that starts at *preroll_context.mutators_stack.Bottom(), <<>> when the
\* stack is empty
Call(layer, comparator, matrix, paint_bounds, cull_rect, mutators) ==
  [layer |-> layer, comparator |-> comparator, matrix |-> matrix,
   paint_bounds |-> paint_bounds, cull_rect |-> cull_rect, mutators |-> mutators]

\* DamageContext::FrameDescription; previous_frame_ == nullptr is NoFrame
FrameDescription(size, entries) ==
  [null |-> FALSE, layer_tree_size |-> size, entries |-> entries]

NoFrame == [null |-> TRUE, layer_tree_size |-> Size(0, 0), entries |-> <<>>]

\* one AddDamageRect call: the rectangle, its source and its paint order
DamageEvent(rect, source, paint_order) ==
  [rect |-> rect, source |-> source, paint_order |-> paint_order]

\* ------------------------------------------------- LayerContribution equality
\* a LayerComparator called through its pointer; BackdropFilterLayer::compare
\* compares the filter_ of the two layers, and so does "texture" with the
\* content of its kind of layer; "never" is a function that returns false
comparator_call(comparator, l1, l2) ==
  IF comparator = "never" THEN FALSE ELSE l1.content = l2.content

\* a faulty compare_mutators: stops at the first node of the shorter chain
RECURSIVE compare_mutators_prefix(_, _)
compare_mutators_prefix(m1, m2) ==
  IF m1 = <<>> \/ m2 = <<>> THEN TRUE
  ELSE IF Head(m1).id = Head(m2).id THEN TRUE
  ELSE IF Head(m1).value /= Head(m2).value THEN FALSE
  ELSE compare_mutators_prefix(Tail(m1), Tail(m2))

\* compare_mutators(m1, m2): walks both chains; equal pointers (both null, or
\* the same node) end the walk with true
RECURSIVE compare_mutators(_, _)
compare_mutators(m1, m2) ==
  IF m1 = <<>> /\ m2 = <<>> THEN TRUE
  ELSE IF m1 /= <<>> /\ m2 /= <<>> /\ Head(m1).id = Head(m2).id THEN TRUE
  ELSE IF m1 = <<>> \/ m2 = <<>> \/ Head(m1).value /= Head(m2).value THEN FALSE
  ELSE compare_mutators(Tail(m1), Tail(m2))

\* a faulty operator==: the comparator is called for every pair of layers
LayerContributionEq_alwaysCompares(a, e) ==
  /\ a.comparator = e.comparator
  /\ a.paint_bounds = e.paint_bounds
  /\ compare_mutators(a.mutator_node, e.mutator_node)
  /\ comparator_call(a.comparator, a.layer, e.layer)

\* LayerContribution::operator==
LayerContributionEq(a, e) ==
  /\ a.comparator = e.comparator
  /\ a.paint_bounds = e.paint_bounds
  /\ compare_mutators(a.mutator_node, e.mutator_node)
  /\ (a.layer.id = e.layer.id \/ comparator_call(a.comparator, a.layer, e.layer))

\* LayerContributionSet::find(key): the position of the element equal to key,
\* 0 for end()
find(entries, key) ==
  LET S == { k \in 1..Len(entries) : LayerContributionEq(entries[k], key) }
  IN IF S = {} THEN 0 ELSE CHOOSE k \in S : \A j \in S : k <= j

\* a faulty insert: elements of equal hash (bounds and comparator) count as
\* equal
insert_byHash(entries, e) ==
  IF \E k \in 1..Len(entries) : /\ entries[k].paint_bounds = e.paint_bounds
                                 /\ entries[k].comparator = e.comparator
    THEN entries ELSE Append(entries, e)

\* a faulty insert: the element replaces the equal element that is present
insert_replaces(entries, e) ==
  IF find(entries, e) /= 0 THEN [entries EXCEPT ![find(entries, e)] = e]
  ELSE Append(entries, e)

\* LayerContributionSet::insert(e): nothing is inserted when an equal element
\* is present.  The set is kept as the sequence of its elements in the order
\* of insertion, which FinishFrame makes the order of paint_order.
insert(entries, e) == IF find(entries, e) /= 0 THEN entries ELSE Append(entries, e)

\* ------------------------------------------------------------ the delegate
\* readback_bounds_ of delegate d (1, 2, ...): delegate 1 reads back a region
\* that lies partly in the output, every further one a region that overlaps
\* only the region of the delegate before it
ReadbackBounds(d) == PxRect(5 + 15 * d, 5 + 15 * d, 25 + 15 * d, 25 + 15 * d)

\* the fields of a Delegate object.  A BackdropFilterLayer has the fields
\* that Preroll has set for the damage pass; `snapshot` is
\* shared_state_->snapshot != nullptr.  Delegate is an interface: when
\* `alternates` is set the object is of another class, one that overrides
\* OnReportAdditionalDamage alone and returns its rectangle and the empty
\* rectangle in turn (`flip` is set when the rectangle was returned last)
DelegateFields(d, snapshot, alternates, paint_order, previous_paint_order) ==
  [readback_bounds_ |-> ReadbackBounds(d), snapshot |-> snapshot,
   paint_order_ |-> paint_order, previous_paint_order_ |-> previous_paint_order,
   damage_below_ |-> MakeEmpty, alternates |-> alternates, flip |-> FALSE]

\* a faulty OnDamageAdded: damage at the delegate's own paint order counts as
\* damage below it
OnDamageAdded_atOrBelow(f, rect, source, paint_order) ==
  IF /\ ~f.alternates
     /\ \/ (source = kPreviousFrame /\ paint_order <= f.previous_paint_order_)
        \/ (source = kThisFrame /\ paint_order <= f.paint_order_)
     /\ intersects(f.readback_bounds_, rect)
    THEN [f EXCEPT !.damage_below_ = join(f.damage_below_, rect)]
    ELSE f

\* BackdropFilterLayer::OnDamageAdded, on the fields of the delegate;
\* Delegate::OnDamageAdded, which does nothing, for the alternating class
OnDamageAdded(f, rect, source, paint_order) ==
  IF /\ ~f.alternates
     /\ \/ (source = kPreviousFrame /\ paint_order < f.previous_paint_order_)
        \/ (source = kThisFrame /\ paint_order < f.paint_order_)
     /\ intersects(f.readback_bounds_, rect)
    THEN [f EXCEPT !.damage_below_ = join(f.damage_below_, rect)]
    ELSE f

\* BackdropFilterLayer::OnReportAdditionalDamage; the override of the
\* alternating class
OnReportAdditionalDamage(f, bounds) ==
  IF f.alternates
    THEN IF f.flip THEN MakeEmpty ELSE f.readback_bounds_
  ELSE IF f.snapshot
    THEN IF ~isEmpty(f.damage_below_) THEN f.readback_bounds_ ELSE MakeEmpty
    ELSE IF intersects(f.readback_bounds_, bounds) THEN f.readback_bounds_
         ELSE MakeEmpty

\* the fields of the delegate when OnReportAdditionalDamage has returned:
\* BackdropFilterLayer's is const, the alternating class notes what it
\* returned
Asked(f) == IF f.alternates THEN [f EXCEPT !.flip = ~@] ELSE f

\* DamageContext::DelegateRecord
DelegateRecord(delegate, paint_order) ==
  [delegate |-> delegate, paint_order |-> paint_order, reported_damage |-> MakeEmpty]

\* the delegates that are registered in `delegates`
Registered(delegates) == { delegates[k].delegate : k \in 1..Len(delegates) }

\* history: one call of a Delegate callback; `result` is the rectangle that
\* OnReportAdditionalDamage returned
DamageAddedCall(delegate, rect, source, paint_order) ==
  [delegate |-> delegate, op |-> "OnDamageAdded", rect |-> rect,
   source |-> source, paint_order |-> paint_order, result |-> MakeEmpty]

ReportCall(delegate, bounds, result) ==
  [delegate |-> delegate, op |-> "OnReportAdditionalDamage", rect |-> bounds,
   source |-> kThisFrame, paint_order |-> -1, result |-> result]

\* the delegates that were called in `log`
Called(log) == { log[k].delegate : k \in 1..Len(log) }

\* a faulty loop: only the delegate registered first is called
DamageAddedCalls_firstOnly(delegates, except, rect, source, paint_order) ==
  IF delegates = <<>> \/ delegates[1].delegate = except THEN <<>>
  ELSE << DamageAddedCall(delegates[1].delegate, rect, source, paint_order) >>

\* a faulty loop: no delegate is skipped
DamageAddedCalls_all(delegates, except, rect, source, paint_order) ==
  [k \in 1..Len(delegates) |->
     DamageAddedCall(delegates[k].delegate, rect, source, paint_order)]

\* the OnDamageAdded calls of one loop over `delegates`, in its order, that
\* skips the delegate `except` (0 to skip none)
DamageAddedCalls(delegates, except, rect, source, paint_order) ==
  LET other(d) == d.delegate /= except
      to == SelectSeq(delegates, other)
  IN [k \in 1..Len(to) |->
        DamageAddedCall(to[k].delegate, rect, source, paint_order)]

\* OnDamageAdded(rect, source, paint_order) on every delegate of `targets`
Notify(dstate, targets, rect, source, paint_order) ==
  [d \in DOMAIN dstate |->
     IF d \in targets THEN OnDamageAdded(dstate[d], rect, source, paint_order)
     ELSE dstate[d]]

\* DamageContext::AddDamageRect for a sequence of calls: every rectangle goes
\* to the area and to every registered delegate; acc.log is the history of
\* the callbacks called
RECURSIVE AddDamageRects(_, _, _)
AddDamageRects(acc, delegates, events) ==
  IF events = <<>> THEN acc
  ELSE LET e == Head(events)
           calls == DamageAddedCalls(delegates, 0, e.rect, e.source, e.paint_order)
       IN AddDamageRects(
            [area |-> AddRect(acc.area, e.rect),
             dstate |-> Notify(acc.dstate, Called(calls),
                               e.rect, e.source, e.paint_order),
             log |-> acc.log \o calls],
            delegates, Tail(events))

\* a faulty loop body: the reported rectangle is not added to the area
ReportStep_notAdded(acc, k) ==
  LET d == acc.delegates[k]
      reported == OnReportAdditionalDamage(acc.dstate[d.delegate],
                                           MakeFromIRect(acc.area))
      called == Append(acc.log, ReportCall(d.delegate, MakeFromIRect(acc.area),
                                           reported))
      asked == [acc.dstate EXCEPT ![d.delegate] = Asked(@)]
  IN IF reported /= d.reported_damage
       THEN [acc EXCEPT !.delegates[k].reported_damage = reported,
                        !.all_good = FALSE, !.log = called, !.dstate = asked]
       ELSE [acc EXCEPT !.log = called, !.dstate = asked]

\* a faulty loop body: what the last delegate of a pass reports does not
\* make the loop go round again
ReportStep_lastIgnored(acc, k) ==
  LET d == acc.delegates[k]
      reported == OnReportAdditionalDamage(acc.dstate[d.delegate],
                                           MakeFromIRect(acc.area))
      called == Append(acc.log, ReportCall(d.delegate, MakeFromIRect(acc.area),
                                           reported))
      calls == DamageAddedCalls(acc.delegates, d.delegate, reported,
                                kThisFrame, d.paint_order)
      asked == [acc.dstate EXCEPT ![d.delegate] = Asked(@)]
  IN IF reported /= d.reported_damage
       THEN [delegates |-> [acc.delegates EXCEPT ![k].reported_damage = reported],
             dstate |-> Notify(asked, Called(calls),
                               reported, kThisFrame, d.paint_order),
             area |-> AddRect(acc.area, reported),
             all_good |-> IF k = Len(acc.delegates) THEN acc.all_good ELSE FALSE,
             log |-> called \o calls]
       ELSE [acc EXCEPT !.log = called, !.dstate = asked]

\* the body of the for loop of FinishDelegates for delegates_[k]; acc holds
\* delegates_, the delegates' fields, the area and all_good
ReportStep(acc, k) ==
  LET d == acc.delegates[k]
      prev == d.reported_damage
      reported == OnReportAdditionalDamage(acc.dstate[d.delegate],
                                           MakeFromIRect(acc.area))
      called == Append(acc.log, ReportCall(d.delegate, MakeFromIRect(acc.area),
                                           reported))
      calls == DamageAddedCalls(acc.delegates, d.delegate, reported,
                                kThisFrame, d.paint_order)
      asked == [acc.dstate EXCEPT ![d.delegate] = Asked(@)]
  IN IF reported /= prev
       THEN [delegates |-> [acc.delegates EXCEPT ![k].reported_damage = reported],
             dstate |-> Notify(asked, Called(calls),
                               reported, kThisFrame, d.paint_order),
             area |-> AddRect(acc.area, reported),
             all_good |-> FALSE,
             log |-> called \o calls]
       ELSE [acc EXCEPT !.log = called, !.dstate = asked]

\* the for loop of FinishDelegates from delegates_[k] on
RECURSIVE FinishDelegatesFrom(_, _)
FinishDelegatesFrom(acc, k) ==
  IF k > Len(acc.delegates) THEN acc
  ELSE FinishDelegatesFrom(ReportStep(acc, k), k + 1)

\* one iteration of the do-while of FinishDelegates
FinishDelegatesIteration(delegates, dstate, area, log) ==
  FinishDelegatesFrom([delegates |-> delegates, dstate |-> dstate,
                       area |-> area, all_good |-> TRUE, log |-> log], 1)

\* ------------------------------------------------------------- FinishFrame
\* a faulty first loop: records with empty bounds are inserted too
RECURSIVE InsertEntries_keepEmpty(_, _, _)
InsertEntries_keepEmpty(les, i, entries) ==
  IF i > Len(les) THEN entries
  ELSE InsertEntries_keepEmpty(les, i + 1,
                               insert(entries, [les[i] EXCEPT !.paint_order = i - 1]))

\* a faulty first loop: a record gets its position among the records
\* inserted so far as paint_order
RECURSIVE InsertEntries_position(_, _, _)
InsertEntries_position(les, i, entries) ==
  IF i > Len(les) THEN entries
  ELSE IF isEmpty(les[i].paint_bounds) THEN InsertEntries_position(les, i + 1, entries)
  ELSE InsertEntries_position(les, i + 1,
         insert(entries, [les[i] EXCEPT !.paint_order = Len(entries)]))

\* the first loop of FinishFrame from index i on (i - 1 is the C++ index)
RECURSIVE InsertEntries(_, _, _)
InsertEntries(les, i, entries) ==
  IF i > Len(les) THEN entries
  ELSE IF isEmpty(les[i].paint_bounds) THEN InsertEntries(les, i + 1, entries)
  ELSE InsertEntries(les, i + 1,
                     insert(entries, [les[i] EXCEPT !.paint_order = i - 1]))

\* the entries of the new FrameDescription: the records with non-empty
\* bounds get their index in layer_entries_ as paint_order and are inserted
FrameEntries(les) == InsertEntries(les, 1, <<>>)

\* std::sort by paint_order (the paint orders of one frame are distinct)
RECURSIVE SortByPaintOrder(_)
SortByPaintOrder(s) ==
  IF s = <<>> THEN <<>>
  ELSE LET k == CHOOSE i \in 1..Len(s) :
                  \A j \in 1..Len(s) : s[i].paint_order <= s[j].paint_order
       IN <<s[k]>> \o SortByPaintOrder(SubSeq(s, 1, k - 1) \o SubSeq(s, k + 1, Len(s)))

\* a faulty inner loop: compares the two pointers, which are never equal,
\* instead of the records they point to
RECURSIVE ReorderScan_pointers(_, _, _)
ReorderScan_pointers(prev, mc, cur) ==
  IF cur = 0 THEN [events |-> <<>>, cur |-> 0]
  ELSE LET rest == ReorderScan_pointers(prev, mc, cur - 1)
           ev == IF intersects(prev.paint_bounds, mc[cur].paint_bounds)
                   THEN << DamageEvent(prev.paint_bounds, kPreviousFrame, prev.paint_order),
                           DamageEvent(mc[cur].paint_bounds, kThisFrame, mc[cur].paint_order) >>
                   ELSE <<>>
       IN [events |-> ev \o rest.events, cur |-> rest.cur]

\* a faulty inner loop: every record that is passed counts as reordered,
\* whether or not it intersects prev
RECURSIVE ReorderScan_noIntersects(_, _, _)
ReorderScan_noIntersects(prev, mc, cur) ==
  IF cur = 0 THEN [events |-> <<>>, cur |-> 0]
  ELSE IF LayerContributionEq(prev, mc[cur]) THEN [events |-> <<>>, cur |-> cur]
  ELSE LET rest == ReorderScan_noIntersects(prev, mc, cur - 1)
       IN [events |->
             << DamageEvent(prev.paint_bounds, kPreviousFrame, prev.paint_order),
                DamageEvent(mc[cur].paint_bounds, kThisFrame, mc[cur].paint_order) >>
               \o rest.events,
           cur |-> rest.cur]

\* the inner while loop of the reordering pass: from position cur of
\* matching_current backwards to the record equal to prev; cur = 0 means the
\* iterator went past begin()
RECURSIVE ReorderScan(_, _, _)
ReorderScan(prev, mc, cur) ==
  IF cur = 0 THEN [events |-> <<>>, cur |-> 0]
  ELSE IF LayerContributionEq(prev, mc[cur]) THEN [events |-> <<>>, cur |-> cur]
  ELSE LET rest == ReorderScan(prev, mc, cur - 1)
           ev == IF intersects(prev.paint_bounds, mc[cur].paint_bounds)
                   THEN << DamageEvent(prev.paint_bounds, kPreviousFrame, prev.paint_order),
                           DamageEvent(mc[cur].paint_bounds, kThisFrame, mc[cur].paint_order) >>
                   ELSE <<>>
       IN [events |-> ev \o rest.events, cur |-> rest.cur]

\* a faulty reordering pass: finds no reordered records
ReorderEvents_none(mp, mc) == [events |-> <<>>, overrun |-> FALSE, left |-> <<>>]

\* the outer while loop of the reordering pass over matching_previous and
\* matching_current, both sorted by paint order; `left` is what
\* matching_current holds when the loop is left
RECURSIVE ReorderEvents(_, _)
ReorderEvents(mp, mc) ==
  IF mp = <<>> THEN [events |-> <<>>, overrun |-> FALSE, left |-> mc]
  ELSE LET prev == mp[Len(mp)]
           scan == ReorderScan(prev, mc, Len(mc))
       IN IF scan.cur = 0
            THEN [events |-> scan.events, overrun |-> TRUE, left |-> mc]
          ELSE LET rest == ReorderEvents(SubSeq(mp, 1, Len(mp) - 1),
                                         SubSeq(mc, 1, scan.cur - 1)
                                           \o SubSeq(mc, scan.cur + 1, Len(mc)))
               IN [events |-> scan.events \o rest.events, overrun |-> rest.overrun,
                   left |-> rest.left]

\* the AddDamageRect calls for the records of s
EventsOf(s, source) ==
  [k \in 1..Len(s) |-> DamageEvent(s[k].paint_bounds, source, s[k].paint_order)]

\* a faulty diff: the records of the previous frame are not looked at
DiffEvents_noRemoved(entries, previous) ==
  LET unmatched(l) == find(previous.entries, l) = 0
  IN [events |-> EventsOf(SelectSeq(entries, unmatched), kThisFrame),
      overrun |-> FALSE]

\* a faulty diff: the records of this frame without a match add no damage
DiffEvents_noAdded(entries, previous) ==
  LET gone(l) == find(entries, l) = 0
  IN [events |-> EventsOf(SelectSeq(previous.entries, gone), kPreviousFrame),
      overrun |-> FALSE]

\* matching_current after the sort: the records of `entries` for which
\* previous_frame_->entries.find finds a record, by paint order
matching_current(entries, previous) ==
  LET matched(l) == find(previous.entries, l) /= 0
  IN SortByPaintOrder(SelectSeq(entries, matched))

\* matching_previous after the sort: the records that find has found, by
\* paint order
matching_previous(entries, previous) ==
  LET matched(l) == find(previous.entries, l) /= 0
      cur == SelectSeq(entries, matched)
  IN SortByPaintOrder([k \in 1..Len(cur) |->
                         previous.entries[find(previous.entries, cur[k])]])

\* the else branch of FinishFrame: the AddDamageRect calls of the diff of
\* `entries` against the previous frame
DiffEvents(entries, previous) ==
  LET unmatched(l) == find(previous.entries, l) = 0
      gone(l) == find(entries, l) = 0
      reorder == ReorderEvents(matching_previous(entries, previous),
                               matching_current(entries, previous))
  IN [events |-> EventsOf(SelectSeq(entries, unmatched), kThisFrame)
                   \o EventsOf(SelectSeq(previous.entries, gone), kPreviousFrame)
                   \o reorder.events,
      overrun |-> reorder.overrun]

\* a faulty test for full damage: a missing previous frame is not tested for
FullDamage_sizeOnly(previous, size) ==
  ~previous.null /\ previous.layer_tree_size /= size

\* a faulty test for full damage: only a missing previous frame counts
FullDamage_nullOnly(previous, size) == previous.null

\* the condition of the if of FinishFrame: no previous frame, or one of
\* another size
FullDamage(previous, size) == previous.null \/ previous.layer_tree_size /= size

\* a faulty FinishFrame: with full damage, AddDamageRect is also called for
\* every record of the frame
StructuralEvents_alsoRecords(entries, previous, size) ==
  IF FullDamage(previous, size)
    THEN [events |-> << DamageEvent(MakeIWH(size.width, size.height), kThisFrame, -1) >>
                       \o EventsOf(entries, kThisFrame),
          overrun |-> FALSE]
    ELSE DiffEvents(entries, previous)

\* the AddDamageRect calls of FinishFrame
StructuralEvents(entries, previous, size) ==
  IF FullDamage(previous, size)
    THEN [events |-> << DamageEvent(MakeIWH(size.width, size.height), kThisFrame, -1) >>,
          overrun |-> FALSE]
    ELSE DiffEvents(entries, previous)

\* ------------------------------------------------------------- the handle
\* LayerContributionHandle::PaintOrder() of the handle of layer_entries_[i]
\* (index_ is i - 1)
PaintOrder(i) == i - 1

\* LayerContributionHandle::PreviousLayer(): the layer of the matching record
\* of the previous frame, NoLayer for nullptr
NoLayer == [id |-> 0, content |-> ""]

\* a faulty PreviousLayer: the layer of the record of the handle itself
PreviousLayer_own(entry, previous) ==
  IF ~previous.null /\ find(previous.entries, entry) /= 0
    THEN entry.layer
    ELSE NoLayer

PreviousLayer(entry, previous) ==
  IF ~previous.null /\ find(previous.entries, entry) /= 0
    THEN previous.entries[find(previous.entries, entry)].layer
    ELSE NoLayer

\* a faulty PreviousPaintOrder: the position of the matching record among the
\* records of the previous frame
PreviousPaintOrder_position(entry, previous) ==
  IF ~previous.null /\ find(previous.entries, entry) /= 0
    THEN find(previous.entries, entry) - 1
    ELSE -1

\* LayerContributionHandle::PreviousPaintOrder()
PreviousPaintOrder(entry, previous) ==
  IF ~previous.null /\ find(previous.entries, entry) /= 0
    THEN previous.entries[find(previous.entries, entry)].paint_order
    ELSE -1

\* ------------------------------------------------------------ the inputs
Identity == Matrix(0, 0)
OutputCull == PxRect(0, 0, 30, 30)

RectA == PxRect(0, 0, 10, 10)
RectB == PxRect(5, 5, 15, 15)
RectC == PxRect(20, 20, 30, 30)
RectD == PxRect(10, 10, 22, 22)

\* a layer painted without mutators under the identity matrix
Plain(layer, paint_bounds) ==
  Call(layer, "texture", Identity, paint_bounds, OutputCull, <<>>)

\* a layer object of content "a" painted at RectA under a chain of mutators
Mutated(id, mutators) ==
  Call(Layer(id, "a"), "texture", Identity, RectA, OutputCull, mutators)

Opacity1 == MutatorNode(1, "opacity")
Clip2 == MutatorNode(2, "clip")
Opacity3 == MutatorNode(3, "opacity")
Opacity4 == MutatorNode(4, "opacity")
Clip5 == MutatorNode(5, "clip")

\* what the tree walker may pass: the AddLayerContribution calls, the frame
\* sizes, the delegates, whether a delegate has a snapshot, the paint bounds
\* a layer may have when UpdatePaintBounds is called, whether the layer
\* objects of a frame are retained for the next or every tree is a new one,
\* and which of the delegates are of the alternating class
Scene(calls, sizes, delegates, snapshots, paint_bounds, retained, alternating) ==
  [calls |-> calls, sizes |-> sizes, delegates |-> delegates,
   snapshots |-> snapshots, paint_bounds |-> paint_bounds, retained |-> retained,
   alternating |-> alternating]

\* two overlapping layers, a layer with other content in the place of the
\* first, and the second layer moved elsewhere; one frame size
DiffScene ==
  Scene({ Plain(Layer(1, "a"), RectA), Plain(Layer(2, "b"), RectB),
          Plain(Layer(4, "d"), RectA), Plain(Layer(2, "b"), RectC) },
        { Size(30, 30) }, {1}, { FALSE }, {}, FALSE, {})

\* one layer, a second layer object with the same content, a layer with
\* sub-pixel bounds, a layer that paints nothing; three frame sizes
SizeScene ==
  Scene({ Plain(Layer(1, "a"), RectA), Plain(Layer(5, "a"), RectA),
          Plain(Layer(6, "f"), Rect(1, 1, 2 * Subpixel + 1, 3 * Subpixel + 1)),
          Plain(Layer(7, "e"), MakeEmpty) },
        { Size(30, 30), Size(16, 16), Size(0, 0) }, {1}, { FALSE }, {}, FALSE, {})

\* five layer objects of the same content in the same place, each under its
\* chain of mutators: none, one node, another node of equal value, a node of
\* another value, a longer chain whose head has the value of the one node
MutatorScene ==
  Scene({ Mutated(1, <<>>), Mutated(2, <<Opacity1>>), Mutated(3, <<Opacity3>>),
          Mutated(4, <<Clip2>>), Mutated(5, <<Opacity4, Clip5>>) },
        { Size(30, 30) }, {1}, { FALSE }, {}, FALSE, {})

\* two overlapping layers, one of them under the readback region of
\* delegate 1; delegates with and without a snapshot
DelegateScene ==
  Scene({ Plain(Layer(2, "b"), RectB), Plain(Layer(3, "c"), RectD) },
        { Size(30, 30) }, 1..MaxDelegates, { FALSE, TRUE }, {}, FALSE, {})

\* two layers, one under the readback region of delegate 1; the delegates
\* are layers that the embedder retains from frame to frame
RetainedScene ==
  Scene({ Plain(Layer(1, "a"), RectA), Plain(Layer(3, "c"), RectC) },
        { Size(30, 30) }, {1, 2}, { FALSE }, {}, TRUE, {})

\* two layer objects of the same content painted in one place, each with
\* the comparator of its kind and with the comparator that never holds
EqualityScene ==
  Scene({ Plain(Layer(1, "a"), RectA),
          Plain(Layer(5, "a"), RectA),
          Call(Layer(1, "a"), "never", Identity, RectA, OutputCull, <<>>),
          Call(Layer(5, "a"), "never", Identity, RectA, OutputCull, <<>>) },
        { Size(30, 30) }, {1}, { FALSE }, {}, FALSE, {})

\* a layer under the readback region of delegate 1; two frame sizes, the
\* smaller of which does not reach the readback region of any delegate
InvalidationScene ==
  Scene({ Plain(Layer(3, "c"), RectD) },
        { Size(30, 30), Size(16, 16) }, 1..MaxDelegates, { FALSE }, {}, FALSE, {})

\* a layer under the readback region of delegate 1, which is a
\* BackdropFilterLayer; delegate 2 is of the alternating class
AlternatingScene ==
  Scene({ Plain(Layer(3, "c"), RectD) },
        { Size(30, 30) }, {1, 2}, { FALSE }, {}, FALSE, {2})

\* a layer and a layer that overlaps it; a layer may come to paint nothing
UpdateScene ==
  Scene({ Plain(Layer(1, "a"), RectA), Plain(Layer(2, "b"), RectB) },
        { Size(30, 30) }, {1}, { FALSE }, { MakeEmpty }, FALSE, {})

\* a layer that paints RectA and is moved by five pixels, to RectB; it may
\* come to paint nothing or to paint RectD
MovedScene ==
  Scene({ Call(Layer(2, "b"), "texture", Matrix(5 * Subpixel, 5 * Subpixel), RectA,
               OutputCull, <<>>) },
        { Size(30, 30) }, {1}, { FALSE }, { MakeEmpty, RectD }, FALSE, {})

\* a tree of BackdropFilterLayers alone, which retains its layers
BackdropScene ==
  Scene({}, { Size(30, 30) }, {}, { FALSE }, {}, TRUE, {})

\* --------------------------------------------------------------- the state
\* no DamageResult is being built.  Besides the DamageResult, `res` keeps
\* the history of the FinishFrame call in progress: the AddDamageRect calls
\* of the diff (events), the callbacks called so far (log) and how many of
\* them were called before FinishDelegates (structural_calls)
NoResult ==
  [area |-> MakeEmpty, structural |-> MakeEmpty, frame_description |-> NoFrame,
   overrun |-> FALSE, events |-> <<>>, log |-> <<>>, structural_calls |-> 0]

\* no FinishFrame has returned since the last InitFrame; `registered` is the
\* set of delegates that AddDelegate was called with in the frame, `counts`
\* the no_change_frame_count of every shared state when FinishFrame returned
\* and `prerolled` the layers prerolled again since
NoLast ==
  [valid |-> FALSE, previous |-> NoFrame, size |-> Size(0, 0), entries |-> <<>>,
   delegates |-> <<>>, passes |-> 0, structural |-> MakeEmpty, area |-> MakeEmpty,
   frame_description |-> NoFrame, overrun |-> FALSE, events |-> <<>>,
   log |-> <<>>, structural_calls |-> 0, registered |-> {},
   counts |-> <<>>, prerolled |-> {}]

\* a faulty clear(): the vector keeps its elements
clear_keeps(v) == v

\* std::vector::clear()
clear(v) == <<>>

\* ------------------------------------------------ the BackdropFilterLayers
\* the BackdropFilterLayer objects of the layer tree, which the tree retains
\* from frame to frame: two layers with the same filter_ that are prerolled
\* under the same matrix and cull rectangle, the second above the first
BackdropLayers == {1, 2}

\* filter_->computeFastBounds(context->cull_rect) of these layers
filter_bounds == PxRect(5, 5, 25, 25)

\* the arguments of the AddLayerContribution call of Preroll; the comparator
\* compares the filter_ of the two layers
BackdropCall(l) ==
  Call(Layer(l, "blur"), "backdrop", Identity, filter_bounds, OutputCull, <<>>)

\* a BackdropFilterLayerSharedState as constructed
NewSharedState == [snapshot |-> FALSE, no_change_frame_count |-> 0]

\* no layer has a shared state: shared_state_ is nullptr (0) in every layer
InitBackdrop ==
  /\ shared_state_ = [l \in BackdropLayers |-> 0]
  /\ shared = <<>>

\* a GPUSurfaceMetal after construction: damage_ has no entry
InitMetal ==
  /\ damage_ = <<>>
  /\ frames = {}
  /\ submits = <<>>

\* the extensions AndroidEGLSurfaceDamage::init looks for in EGL_EXTENSIONS
Extensions ==
  { "EGL_EXT_buffer_age", "EGL_KHR_partial_update",
    "EGL_EXT_swap_buffers_with_damage", "EGL_KHR_swap_buffers_with_damage" }

NoCall == [proc |-> "none", rects |-> <<>>, n_rects |-> 0]
NoInitial == [age |-> -1, frames |-> 0, res |-> <<>>]

\* AndroidEGLSurfaceDamage::init, which the constructor of AndroidEGLSurface
\* calls on the new object, for a display with the given extensions
init(extensions) ==
  /\ has_buffer_age_ = ("EGL_EXT_buffer_age" \in extensions)
  /\ set_damage_region =
       IF "EGL_EXT_buffer_age" \in extensions /\ "EGL_KHR_partial_update" \in extensions
         THEN "eglSetDamageRegionKHR" ELSE "nullptr"
  /\ swap_buffers_with_damage =
       IF "EGL_EXT_buffer_age" \notin extensions THEN "nullptr"
       ELSE IF "EGL_EXT_swap_buffers_with_damage" \in extensions
         THEN "eglSwapBuffersWithDamageEXT"
       ELSE IF "EGL_KHR_swap_buffers_with_damage" \in extensions
         THEN "eglSwapBuffersWithDamageKHR"
       ELSE "nullptr"
  /\ damage_history_ = <<>>
  /\ swaps = <<>>
  /\ egl = NoCall
  /\ initial = NoInitial

NoResize == [state |-> "none", accepted |-> FALSE, committed |-> FALSE]
NoCommit == [state |-> "none", accepted |-> FALSE, committed |-> FALSE,
             interrupted |-> FALSE]
NoBlock == [stale |-> FALSE, committed |-> FALSE]

\* a ResizeSynchronizer as constructed by its view, both threads idle
InitResize ==
  /\ cookie_ = 0
  /\ in_run_loop_ = FALSE
  /\ accepting_ = TRUE
  /\ waiting_ = FALSE
  /\ pending_commit_ = FALSE
  /\ delegate_ = TRUE
  /\ platform = "idle"
  /\ raster = "idle"
  /\ notified = FALSE
  /\ main_queue = <<>>
  /\ raster_queue = <<>>
  /\ resize = NoResize
  /\ commit = NoCommit
  /\ block = NoBlock

\* a DamageContext and no DamageResult yet, for the inputs of scene sc
InitDamageContext(sc) ==
  /\ scene = sc
  /\ pc = "idle"
  /\ previous_frame_ = NoFrame
  /\ current_layer_tree_size_ = Size(0, 0)
  /\ layer_entries_ = <<>>
  /\ delegates_ = <<>>
  /\ handles = <<>>
  /\ delegate_state = <<>>
  /\ res = NoResult
  /\ passes = 0
  /\ held = NoFrame
  /\ last = NoLast
  /\ bounds_ = MakeEmpty
  /\ added = <<>>

\* the same, next to the objects of the other parts as constructed
InitContext(sc) ==
  /\ InitDamageContext(sc)
  /\ InitBackdrop
  /\ InitMetal
  /\ init({})
  /\ InitResize

\* ------------------------------------------------------------ the actions
\* DamageContext::InitFrame.  The walk of a layer tree starts: when the tree
\* is a new one, no delegate of it has been prerolled yet; when the layers of
\* the last tree are retained, its delegates are as the last frame left them.
InitFrame(tree_size, previous_frame) ==
  /\ pc = "idle"
  /\ current_layer_tree_size_' = tree_size
  /\ previous_frame_' = previous_frame
  /\ delegates_' = clear(delegates_)
  /\ delegate_state' = IF scene.retained THEN delegate_state ELSE <<>>
  /\ last' = NoLast
  /\ UNCHANGED <<outerVars, bounds_, added, scene, pc, layer_entries_, handles, res, passes, held>>

\* the LayerContribution that AddLayerContribution builds
Contribution(c) ==
  [paint_bounds |-> mapRect(c.matrix, intersect(c.paint_bounds, c.cull_rect)),
   layer |-> c.layer, comparator |-> c.comparator,
   mutator_node |-> c.mutators, paint_order |-> -1]

\* the LayerContributionHandle that AddLayerContribution returns when
\* layer_entries_ is `les`: a default-constructed handle (context_ nullptr,
\* index_ size_t(-1)) when the tree size is empty, else the handle of the
\* record about to be pushed
NullHandle == [context_ |-> FALSE, index_ |-> -1, matrix_ |-> Matrix(0, 0)]

ReturnedHandle(tree_size, les, matrix) ==
  IF SizeIsEmpty(tree_size) THEN NullHandle
  ELSE [context_ |-> TRUE, index_ |-> Len(les), matrix_ |-> matrix]

\* a faulty AddLayerContribution: the tree size is not tested
AddLayerContribution_noSizeTest(c) ==
  /\ pc = "idle"
  /\ Len(layer_entries_) < MaxEntries
  /\ layer_entries_' = Append(layer_entries_, Contribution(c))
  /\ handles' = Append(handles, [context_ |-> TRUE, index_ |-> Len(layer_entries_),
                                  matrix_ |-> c.matrix])
  /\ UNCHANGED <<outerVars, bounds_, added, scene, pc, previous_frame_, current_layer_tree_size_,
                 delegates_, delegate_state, res, passes, held, last>>

\* DamageContext::AddLayerContribution: no record and a null handle when the
\* tree size is empty
AddLayerContribution(c) ==
  /\ pc = "idle"
  /\ Len(layer_entries_) < MaxEntries
  /\ layer_entries_' = IF SizeIsEmpty(current_layer_tree_size_)
                         THEN layer_entries_
                         ELSE Append(layer_entries_, Contribution(c))
  /\ handles' = LET h == ReturnedHandle(current_layer_tree_size_, layer_entries_,
                                         c.matrix)
                 IN IF h = NullHandle THEN handles ELSE Append(handles, h)
  /\ UNCHANGED <<outerVars, bounds_, added, scene, pc, previous_frame_, current_layer_tree_size_,
                 delegates_, delegate_state, res, passes, held, last>>

\* LayerContributionHandle::AddDelegate on the handle that the last
\* AddLayerContribution returned, as BackdropFilterLayer::Preroll calls it:
\* the layer first takes its paint orders from the handle and empties
\* damage_below_
AddDelegate(d, snapshot) ==
  /\ pc = "idle"
  /\ handles /= <<>>
  /\ Len(delegates_) < MaxDelegates
  /\ d \notin Registered(delegates_)
  /\ LET i == handles[Len(handles)].index_ + 1
         fields == DelegateFields(d, snapshot, d \in scene.alternating,
                     PaintOrder(i),
                     PreviousPaintOrder(layer_entries_[i], previous_frame_))
     IN /\ \A k \in 1..Len(delegates_) : delegates_[k].paint_order /= PaintOrder(i)
        /\ delegate_state' =
             [x \in DOMAIN delegate_state \cup {d} |->
                IF x = d THEN fields ELSE delegate_state[x]]
        /\ delegates_' = Append(delegates_, DelegateRecord(d, PaintOrder(i)))
  /\ last' = [last EXCEPT !.registered = @ \cup {d}]
  /\ UNCHANGED <<outerVars, bounds_, added, scene, pc, previous_frame_, current_layer_tree_size_,
                 layer_entries_, handles, res, passes, held>>

\* a faulty UpdatePaintBounds: the bounds are also written to the record of
\* the previous frame that matches the record of the handle
UpdatePaintBounds_previous(k, paint_bounds) ==
  /\ pc = "idle"
  /\ k \in 1..Len(handles)
  /\ LET h == handles[k]
         bounds == mapRect(h.matrix_, paint_bounds)
         j == find(previous_frame_.entries, layer_entries_[h.index_ + 1])
     IN /\ layer_entries_' =
             [layer_entries_ EXCEPT ![h.index_ + 1].paint_bounds = bounds]
        /\ previous_frame_' =
             IF j = 0 THEN previous_frame_
             ELSE [previous_frame_ EXCEPT !.entries[j].paint_bounds = bounds]
  /\ UNCHANGED <<outerVars, bounds_, added, scene, pc, current_layer_tree_size_,
                 delegates_, handles, delegate_state, res, passes, held, last>>

\* a faulty UpdatePaintBounds: the paint bounds are not mapped
UpdatePaintBounds_noMatrix(k, paint_bounds) ==
  /\ pc = "idle"
  /\ k \in 1..Len(handles)
  /\ layer_entries_' =
       [layer_entries_ EXCEPT ![handles[k].index_ + 1].paint_bounds = paint_bounds]
  /\ UNCHANGED <<outerVars, bounds_, added, scene, pc, previous_frame_, current_layer_tree_size_,
                 delegates_, handles, delegate_state, res, passes, held, last>>

\* LayerContributionHandle::UpdatePaintBounds on the k-th handle of the walk;
\* paint_bounds is what the layer's paint_bounds() returns at the time
UpdatePaintBounds(k, paint_bounds) ==
  /\ pc = "idle"
  /\ k \in 1..Len(handles)
  /\ LET h == handles[k]
     IN layer_entries_' =
          [layer_entries_ EXCEPT ![h.index_ + 1].paint_bounds =
                                   mapRect(h.matrix_, paint_bounds)]
  /\ UNCHANGED <<outerVars, bounds_, added, scene, pc, previous_frame_, current_layer_tree_size_,
                 delegates_, handles, delegate_state, res, passes, held, last>>

\* a faulty FinishFrame: every delegate is asked for additional damage before
\* the diff
FinishFrame_reportsFirst ==
  /\ pc = "idle"
  /\ LET entries == FrameEntries(layer_entries_)
         diff == StructuralEvents(entries, previous_frame_, current_layer_tree_size_)
         asked == [k \in 1..Len(delegates_) |->
                     ReportCall(delegates_[k].delegate, MakeEmpty, MakeEmpty)]
         done == AddDamageRects([area |-> MakeEmpty, dstate |-> delegate_state,
                                 log |-> asked],
                                delegates_, diff.events)
     IN /\ res' = [area |-> done.area, structural |-> done.area,
                   frame_description |->
                     FrameDescription(current_layer_tree_size_, entries),
                   overrun |-> diff.overrun, events |-> diff.events,
                   log |-> done.log, structural_calls |-> Len(done.log)]
        /\ delegate_state' = done.dstate
  /\ pc' = "delegates"
  /\ passes' = 0
  /\ last' = [NoLast EXCEPT !.registered = IF last.valid THEN {} ELSE last.registered]
  /\ UNCHANGED <<outerVars, bounds_, added, scene, previous_frame_, current_layer_tree_size_,
                 layer_entries_, delegates_, handles, held>>

\* DamageContext::FinishFrame up to the call of FinishDelegates
FinishFrame ==
  /\ pc = "idle"
  /\ LET entries == FrameEntries(layer_entries_)
         diff == StructuralEvents(entries, previous_frame_, current_layer_tree_size_)
         done == AddDamageRects([area |-> MakeEmpty, dstate |-> delegate_state,
                                 log |-> <<>>],
                                delegates_, diff.events)
     IN /\ res' = [area |-> done.area, structural |-> done.area,
                   frame_description |->
                     FrameDescription(current_layer_tree_size_, entries),
                   overrun |-> diff.overrun, events |-> diff.events,
                   log |-> done.log, structural_calls |-> Len(done.log)]
        /\ delegate_state' = done.dstate
  /\ pc' = "delegates"
  /\ passes' = 0
  /\ last' = [NoLast EXCEPT !.registered = IF last.valid THEN {} ELSE last.registered]
  /\ UNCHANGED <<outerVars, bounds_, added, scene, previous_frame_, current_layer_tree_size_,
                 layer_entries_, delegates_, handles, held>>

\* a faulty loop condition: the loop is left after two iterations
LoopEnds_capped(all_good, done) == all_good \/ done >= 2

\* the condition of the do-while of FinishDelegates, negated: the loop is
\* left after an iteration that ends with all_good set, whatever the number
\* of iterations done before
LoopEnds(all_good, done) == all_good

\* FinishDelegates: an iteration of the do-while in which a delegate reported
\* something new; the loop goes round again
FinishDelegatesAgain ==
  /\ pc = "delegates"
  /\ passes < MaxPasses
  /\ LET it == FinishDelegatesIteration(delegates_, delegate_state, res.area, res.log)
     IN /\ ~LoopEnds(it.all_good, passes)
        /\ delegates_' = it.delegates
        /\ delegate_state' = it.dstate
        /\ res' = [res EXCEPT !.area = it.area, !.log = it.log]
  /\ passes' = passes + 1
  /\ UNCHANGED <<outerVars, bounds_, added, scene, pc, previous_frame_, current_layer_tree_size_,
                 layer_entries_, handles, held, last>>

\* FinishDelegates: the iteration in which no delegate reported anything new,
\* and the rest of FinishFrame: the state of the frame is cleared and the
\* result returned to the caller, who retains the frame description
FinishDelegatesReturn ==
  /\ pc = "delegates"
  /\ LET it == FinishDelegatesIteration(delegates_, delegate_state, res.area, res.log)
     IN /\ LoopEnds(it.all_good, passes)
        /\ last' = [valid |-> TRUE, previous |-> previous_frame_,
                    size |-> current_layer_tree_size_, entries |-> layer_entries_,
                    delegates |-> it.delegates, passes |-> passes + 1,
                    structural |-> res.structural, area |-> it.area,
                    frame_description |-> res.frame_description,
                    overrun |-> res.overrun, events |-> res.events,
                    log |-> it.log, structural_calls |-> res.structural_calls,
                    registered |-> last.registered,
                    counts |-> [s \in 1..Len(shared) |->
                                  shared[s].no_change_frame_count],
                    prerolled |-> {}]
        /\ held' = res.frame_description
  /\ previous_frame_' = NoFrame
  /\ layer_entries_' = clear(layer_entries_)
  /\ current_layer_tree_size_' = Size(0, 0)
  /\ delegates_' = clear(delegates_)
  /\ handles' = <<>>
  /\ res' = NoResult
  /\ passes' = 0
  /\ pc' = "idle"
  /\ UNCHANGED <<outerVars, bounds_, added, scene, delegate_state>>

Next ==
  \/ \E size \in scene.sizes : \E previous \in {NoFrame, held} :
       InitFrame(size, previous)
  \/ \E c \in scene.calls : AddLayerContribution(c)
  \/ \E d \in scene.delegates : \E snapshot \in scene.snapshots :
       AddDelegate(d, snapshot)
  \/ FinishFrame
  \/ FinishDelegatesAgain
  \/ FinishDelegatesReturn

Init == InitContext(DiffScene)
Spec == Init /\ [][Next]_vars

InitSize == InitContext(SizeScene)
SpecSize == InitSize /\ [][Next]_vars

InitMutator == InitContext(MutatorScene)
SpecMutator == InitMutator /\ [][Next]_vars

InitDelegate == InitContext(DelegateScene)
SpecDelegate == InitDelegate /\ [][Next]_vars

InitRetained == InitContext(RetainedScene)
SpecRetained == InitRetained /\ [][Next]_vars

InitEquality == InitContext(EqualityScene)
SpecEquality == InitEquality /\ [][Next]_vars

InitInvalidation == InitContext(InvalidationScene)
SpecInvalidation == InitInvalidation /\ [][Next]_vars

InitAlternating == InitContext(AlternatingScene)
SpecAlternating == InitAlternating /\ [][Next]_vars

\* ------------------------------------- BackdropFilterLayer::Preroll and Paint
\* Paint takes the snapshot when no_change_frame_count is above this
kThreshold == 60

\* the second part of Preroll on the shared state of the layer
RegularPreroll(state, damage_below) ==
  IF isEmpty(damage_below)
    THEN [state EXCEPT !.no_change_frame_count = @ + 1]
    ELSE [state EXCEPT !.no_change_frame_count = 0, !.snapshot = FALSE]

\* BackdropFilterLayer::Preroll of layer l.  The tree is walked once between
\* InitFrame and FinishFrame and once more when FinishFrame has returned;
\* only the layers that registered in the first walk are walked again.  In
\* the first walk, when a previous frame was given, the layer appends its
\* record, takes the shared state of the layer PreviousLayer() returns and
\* registers as delegate; a layer with no shared state then makes one.  In
\* the second walk IsDeterminingDamage() is false, and the layer counts the
\* frame or drops the snapshot.
BackdropPreroll(l) ==
  /\ pc = "idle"
  /\ IF ~previous_frame_.null
       THEN /\ Len(layer_entries_) < MaxEntries
            /\ Len(delegates_) < MaxDelegates
            /\ l \notin Registered(delegates_)
            /\ l = 2 => 1 \in Registered(delegates_)
            /\ LET c == BackdropCall(l)
                   e == Contribution(c)
                   i == Len(layer_entries_) + 1
                   previous_layer == PreviousLayer(e, previous_frame_)
                   own == IF previous_layer /= NoLayer
                            THEN shared_state_[previous_layer.id]
                            ELSE shared_state_[l]
                   state == IF own = 0 THEN Len(shared) + 1 ELSE own
                   states == IF own = 0 THEN Append(shared, NewSharedState) ELSE shared
                   fields == [DelegateFields(l, states[state].snapshot, FALSE,
                                PaintOrder(i), PreviousPaintOrder(e, previous_frame_))
                                EXCEPT !.readback_bounds_ = mapRect(c.matrix, filter_bounds)]
               IN /\ layer_entries_' = Append(layer_entries_, e)
                  /\ handles' = Append(handles,
                        ReturnedHandle(current_layer_tree_size_, layer_entries_, c.matrix))
                  /\ shared_state_' = [shared_state_ EXCEPT ![l] = state]
                  /\ shared' = states
                  /\ delegate_state' =
                       [x \in DOMAIN delegate_state \cup {l} |->
                          IF x = l THEN fields ELSE delegate_state[x]]
                  /\ delegates_' = Append(delegates_, DelegateRecord(l, PaintOrder(i)))
            /\ last' = [last EXCEPT !.registered = @ \cup {l}]
       ELSE /\ last.valid
            /\ l \in last.registered \ last.prerolled
            /\ shared_state_[l] /= 0 =>
                 \/ ~isEmpty(delegate_state[l].damage_below_)
                 \/ shared[shared_state_[l]].no_change_frame_count < MaxCount
            /\ shared' =
                 IF shared_state_[l] = 0 THEN shared
                 ELSE [shared EXCEPT ![shared_state_[l]] =
                         RegularPreroll(@, delegate_state[l].damage_below_)]
            /\ last' = [last EXCEPT !.prerolled = @ \cup {l}]
            /\ UNCHANGED <<layer_entries_, handles, shared_state_, delegate_state,
                           delegates_>>
  /\ UNCHANGED <<bounds_, added, scene, pc, previous_frame_, current_layer_tree_size_,
                 res, passes, held, exceptBackdrop>>

\* BackdropFilterLayer::Paint of layer l, which was prerolled for painting:
\* the snapshot is taken when the counter is past the threshold and there is
\* none; nothing else of the state is written
BackdropPaint(l) ==
  /\ pc = "idle"
  /\ last.valid
  /\ l \in last.prerolled
  /\ LET state == shared_state_[l]
     IN shared' =
          IF /\ state /= 0
             /\ shared[state].no_change_frame_count > kThreshold
             /\ ~shared[state].snapshot
            THEN [shared EXCEPT ![state].snapshot = TRUE]
            ELSE shared
  /\ UNCHANGED <<bounds_, added, scene, pc, previous_frame_, current_layer_tree_size_,
                 layer_entries_, delegates_, handles, delegate_state, res, passes, held,
                 last, shared_state_, exceptBackdrop>>

\* the frames of a tree whose layers are the BackdropFilterLayers
NextBackdrop ==
  \/ \E size \in scene.sizes : \E previous \in {NoFrame, held} :
       InitFrame(size, previous)
  \/ \E l \in BackdropLayers : BackdropPreroll(l)
  \/ \E l \in BackdropLayers : BackdropPaint(l)
  \/ FinishFrame
  \/ FinishDelegatesAgain
  \/ FinishDelegatesReturn

InitBackdropScene == InitContext(BackdropScene)
SpecBackdrop == InitBackdropScene /\ [][NextBackdrop]_vars

\* ------------------------------ GPUSurfaceMetal::AcquireFrameFromCAMetalLayer
\* the textures of the drawables of the CAMetalLayer; damage_ is keyed by the
\* address of the texture
Textures == {1, 2, 3}

\* the values of submit_info().frame_damage, in whole pixels
FrameDamages ==
  { <<>>,
    <<Rect(0, 0, 4, 4)>>,
    <<Rect(8, 0, 9, 1), MakeEmpty, Rect(2, 2, 6, 6)>> }

\* the inner loop of the submit callback: entry.second.join(rect) for
\* every rectangle of frame_damage
RECURSIVE JoinRects(_, _)
JoinRects(entry, frame_damage) ==
  IF frame_damage = <<>> THEN entry
  ELSE JoinRects(join(entry, Head(frame_damage)), Tail(frame_damage))

\* a faulty callback: an entry the texture already has is left as it is
SubmitDamage_keepsEntry(damage, texture, frame_damage) ==
  [t \in (DOMAIN damage) \cup {texture} |->
     IF t = texture
       THEN (IF t \in DOMAIN damage THEN damage[t] ELSE MakeEmpty)
       ELSE JoinRects(damage[t], frame_damage)]

\* damage_ when the submit callback of a frame for `texture` has run: the
\* entries of the other textures accumulate, the entry of this one is reset
\* (and made, when there was none)
SubmitDamage(damage, texture, frame_damage) ==
  [t \in (DOMAIN damage) \cup {texture} |->
     IF t = texture THEN MakeEmpty ELSE JoinRects(damage[t], frame_damage)]

\* AcquireFrameFromCAMetalLayer when nextDrawable returns the drawable of
\* `texture`, which no frame still holds: existing_damage gets the entry
\* of the texture when damage_ has one
AcquireFrameFromCAMetalLayer(texture) ==
  /\ texture \notin {f.texture : f \in frames}
  /\ frames' = frames \cup
       {[texture |-> texture,
         existing_damage |-> IF texture \in DOMAIN damage_
                               THEN <<damage_[texture]>> ELSE <<>>]}
  /\ UNCHANGED <<damage_, submits, exceptMetal>>

\* SurfaceFrame::Submit of frame f, which runs the submit callback once;
\* canvas = FALSE is the null canvas, for which the callback returns false
SubmitFrame(f, canvas, frame_damage) ==
  /\ f \in frames
  /\ frames' = frames \ {f}
  /\ IF canvas
       THEN /\ Len(submits) < MaxSubmits
            /\ damage_' = SubmitDamage(damage_, f.texture, frame_damage)
            /\ submits' = Append(submits, [texture |-> f.texture,
                                           frame_damage |-> frame_damage])
       ELSE UNCHANGED <<damage_, submits>>
  /\ UNCHANGED exceptMetal

NextMetal ==
  \/ \E texture \in Textures : AcquireFrameFromCAMetalLayer(texture)
  \/ \E f \in frames : \E canvas \in BOOLEAN : \E frame_damage \in FrameDamages :
       SubmitFrame(f, canvas, frame_damage)

InitSurface == InitContext(DiffScene)
SpecMetal == InitSurface /\ [][NextMetal]_vars

\* ---------------------------------------------------- AndroidEGLSurfaceDamage
\* EGL_HEIGHT of the surface, in pixels
SurfaceHeight == 10

\* the damage lists passed in (buffer damage, frame damage), in whole pixels
DamageLists ==
  { <<>>,
    <<Rect(0, 0, 4, 4)>>,
    <<Rect(5, 5, 9, 9)>>,
    <<Rect(0, 6, 3, 8), Rect(6, 0, 8, 3)>> }

\* RectsToInts: x, y from the bottom edge, width, height of every rectangle
RECURSIVE RectsToInts(_)
RectsToInts(rects) ==
  IF rects = <<>> THEN <<>>
  ELSE LET r == Head(rects)
       IN <<r.left, SurfaceHeight - r.bottom, r.right - r.left, r.bottom - r.top>>
            \o RectsToInts(Tail(rects))

\* the loop of InitialDamage for age > 1: it starts at damage_history_.begin()
\* with age - 2 and goes on while there is an entry and the count is not
\* negative
RECURSIVE CollectHistory(_, _, _)
CollectHistory(history, i, age) ==
  IF i <= Len(history) /\ age >= 0
    THEN history[i] \o CollectHistory(history, i + 1, age - 1)
    ELSE <<>>

\* the value InitialDamage returns when eglQuerySurface gives `age`
InitialDamageResult(age) ==
  IF ~has_buffer_age_ THEN <<>>
  ELSE IF age = 1 THEN <<MakeEmpty>>
  ELSE IF age > 1 THEN CollectHistory(damage_history_, 1, age - 2)
  ELSE <<>>

\* AndroidEGLSurfaceDamage::SetDamageRegion
SetDamageRegion(region) ==
  /\ egl' = IF set_damage_region /= "nullptr"
              THEN [proc |-> set_damage_region, rects |-> RectsToInts(region),
                    n_rects |-> Len(region)]
              ELSE egl
  /\ UNCHANGED <<has_buffer_age_, set_damage_region, swap_buffers_with_damage,
                 damage_history_, swaps, initial, exceptEGL>>

\* AndroidEGLSurfaceDamage::InitialDamage.  EGL_BUFFER_AGE_EXT is 0 for a
\* buffer with undefined content and n for the buffer that was swapped n
\* frames ago, so it is at most the number of frames swapped.
InitialDamage(age) ==
  /\ age <= Len(swaps)
  /\ initial' = [age |-> age, frames |-> Len(swaps), res |-> InitialDamageResult(age)]
  /\ UNCHANGED <<has_buffer_age_, set_damage_region, swap_buffers_with_damage,
                 damage_history_, swaps, egl, exceptEGL>>

\* AndroidEGLSurfaceDamage::SwapBuffersWithDamage.  `damage` is moved into
\* damage_history_ before damage.size() is read for the call: the vector
\* moved from is empty.
SwapBuffersWithDamage(damage) ==
  /\ Len(swaps) < MaxSwaps
  /\ LET rects == RectsToInts(damage)
         pushed == Append(damage_history_, damage)
         moved_from == <<>>
     IN /\ damage_history_' = IF Len(pushed) > 2 THEN Tail(pushed) ELSE pushed
        /\ egl' = IF swap_buffers_with_damage /= "nullptr"
                    THEN [proc |-> swap_buffers_with_damage, rects |-> rects,
                          n_rects |-> Len(moved_from)]
                    ELSE [proc |-> "eglSwapBuffers", rects |-> <<>>, n_rects |-> 0]
  /\ swaps' = Append(swaps, damage)
  /\ UNCHANGED <<has_buffer_age_, set_damage_region, swap_buffers_with_damage,
                 initial, exceptEGL>>

NextEGL ==
  \/ \E region \in DamageLists : SetDamageRegion(region)
  \/ \E age \in 0..MaxSwaps : InitialDamage(age)
  \/ \E damage \in DamageLists : SwapBuffersWithDamage(damage)

\* an AndroidEGLSurface as constructed, for any set of extensions
InitEGL ==
  /\ InitDamageContext(DiffScene)
  /\ InitBackdrop
  /\ InitMetal
  /\ InitResize
  /\ \E extensions \in SUBSET Extensions : init(extensions)

SpecEGL == InitEGL /\ [][NextEGL]_vars

\* --------------------------------------------------------- ResizeSynchronizer
\* Every member is read and written with mutex_ held, so each stretch of
\* code between taking the mutex and giving it up (unlock, or the wait on
\* cond_run_) is one step.  The view that owns the synchronizer makes the
\* calls and is alive: delegate_ is not nil.

\* cond_run_.notify_all(): a raster thread that waits is notified
NotifyAll == IF raster = "wait" THEN TRUE ELSE notified

\* the histories when [delegate commit] has run on the platform thread
CommitRan(r) == IF r.state \in {"running", "waiting"} THEN [r EXCEPT !.committed = TRUE] ELSE r

\* BeginResize up to the first mutex_.unlock() of its loop.  cookie_ is a
\* uint32_t and is followed up to MaxResizes, where it does not wrap.
BeginResize ==
  /\ platform = "idle"
  /\ cookie_ < MaxResizes
  /\ IF ~delegate_
       THEN /\ resize' = [NoResize EXCEPT !.state = "no delegate"]
            /\ UNCHANGED <<cookie_, accepting_, notified, commit, raster_queue, waiting_,
                           in_run_loop_, platform>>
       ELSE /\ cookie_' = cookie_ + 1
            /\ accepting_' = FALSE
            /\ notified' = NotifyAll
            /\ commit' = IF commit.state = "waiting"
                           THEN [commit EXCEPT !.interrupted = TRUE] ELSE commit
            /\ raster_queue' = Append(raster_queue, cookie_')
            /\ waiting_' = TRUE
            /\ in_run_loop_' = TRUE
            /\ platform' = "CFRunLoopRun"
            /\ resize' = [NoResize EXCEPT !.state = "running"]
  /\ UNCHANGED <<pending_commit_, delegate_, raster, main_queue, block, exceptResize>>

\* CFRunLoopRun returns inside BeginResize (stopped by Commit, or for any
\* other reason): with in_run_loop_ still set the loop runs it again,
\* otherwise BeginResize goes on to its end and returns
CFRunLoopRunReturns ==
  /\ platform = "CFRunLoopRun"
  /\ IF in_run_loop_
       THEN UNCHANGED <<pending_commit_, notified, waiting_, platform, resize, commit>>
       ELSE /\ pending_commit_' = FALSE
            /\ notified' = IF pending_commit_ THEN NotifyAll ELSE notified
            /\ waiting_' = FALSE
            /\ platform' = "idle"
            /\ resize' = [(IF pending_commit_ /\ delegate_ THEN CommitRan(resize) ELSE resize)
                            EXCEPT !.state = "returned"]
            /\ commit' = IF pending_commit_ /\ delegate_ THEN CommitRan(commit) ELSE commit
  /\ UNCHANGED <<cookie_, in_run_loop_, accepting_, delegate_, raster, main_queue,
                 raster_queue, block, exceptResize>>

\* the block BeginResize scheduled on the raster thread runs there, when
\* the thread is not inside Commit
RasterBlock ==
  /\ raster = "idle"
  /\ raster_queue /= <<>>
  /\ accepting_' = IF cookie_ = Head(raster_queue) /\ delegate_ THEN TRUE ELSE accepting_
  /\ raster_queue' = Tail(raster_queue)
  /\ UNCHANGED <<cookie_, in_run_loop_, waiting_, pending_commit_, delegate_, platform,
                 raster, notified, main_queue, resize, commit, block, exceptResize>>

\* Commit on the raster thread up to its return or to cond_run_.wait(lock)
Commit ==
  /\ raster = "idle"
  /\ IF ~accepting_
       THEN /\ commit' = [NoCommit EXCEPT !.state = "returned"]
            /\ UNCHANGED <<pending_commit_, in_run_loop_, main_queue, raster, notified,
                           resize>>
       ELSE /\ IF waiting_
                 THEN /\ pending_commit_' = TRUE
                      /\ in_run_loop_' = FALSE
                      /\ UNCHANGED main_queue
                 ELSE /\ Len(main_queue) < MaxBlocks
                      /\ main_queue' = Append(main_queue, cookie_)
                      /\ UNCHANGED <<pending_commit_, in_run_loop_>>
            /\ raster' = "wait"
            /\ notified' = FALSE
            /\ commit' = [NoCommit EXCEPT !.state = "waiting", !.accepted = TRUE]
            /\ resize' = IF resize.state = "running"
                           THEN [resize EXCEPT !.accepted = TRUE] ELSE resize
  /\ UNCHANGED <<cookie_, accepting_, waiting_, delegate_, platform, raster_queue, block,
                 exceptResize>>

\* cond_run_.wait(lock) returns and Commit with it.  The wait has no
\* predicate: it returns when cond_run_ was notified, and it may return
\* spuriously.
CommitReturns(spurious) ==
  /\ raster = "wait"
  /\ notified \/ spurious
  /\ raster' = "idle"
  /\ notified' = FALSE
  /\ commit' = [commit EXCEPT !.state = "returned"]
  /\ UNCHANGED <<cookie_, in_run_loop_, accepting_, waiting_, pending_commit_, delegate_,
                 platform, main_queue, raster_queue, resize, block, exceptResize>>

\* the main queue runs the block Commit put there; the platform thread is
\* in its own loop or in the CFRunLoopRun of BeginResize
CommitBlock ==
  /\ main_queue /= <<>>
  /\ LET cookie == Head(main_queue)
         commits == cookie_ = cookie /\ delegate_
     IN /\ notified' = IF cookie_ = cookie THEN NotifyAll ELSE notified
        /\ resize' = IF commits THEN CommitRan(resize) ELSE resize
        /\ commit' = IF commits THEN CommitRan(commit) ELSE commit
        /\ block' = [stale |-> cookie_ /= cookie, committed |-> commits]
  /\ main_queue' = Tail(main_queue)
  /\ UNCHANGED <<cookie_, in_run_loop_, accepting_, waiting_, pending_commit_, delegate_,
                 platform, raster, raster_queue, exceptResize>>

NextResize ==
  \/ BeginResize
  \/ CFRunLoopRunReturns
  \/ RasterBlock
  \/ Commit
  \/ \E spurious \in BOOLEAN : CommitReturns(spurious)
  \/ CommitBlock

InitSynchronizer == InitContext(DiffScene)
SpecResize == InitSynchronizer /\ [][NextResize]_vars

\* the tree walks in which layers also call UpdatePaintBounds on their handles
NextUpdate ==
  \/ Next
  \/ \E k \in 1..MaxEntries : \E paint_bounds \in scene.paint_bounds :
       UpdatePaintBounds(k, paint_bounds)

InitUpdate == InitContext(UpdateScene)
SpecUpdate == InitUpdate /\ [][NextUpdate]_vars

InitMoved == InitContext(MovedScene)
SpecMoved == InitMoved /\ [][NextUpdate]_vars

\* ------------------------------------------------- the stand-alone DamageArea
\* DamageArea::AddRect(const SkRect&) on a DamageArea of its own
AreaAddRect(rect) ==
  /\ Len(added) < MaxRects
  /\ bounds_' = AddRect(bounds_, rect)
  /\ added' = Append(added, RealArg(rect))
  /\ UNCHANGED ctxVars

\* DamageArea::AddRect(const SkIRect&) on a DamageArea of its own
AreaAddIRect(irect) ==
  /\ Len(added) < MaxRects
  /\ bounds_' = AddIRect(bounds_, irect)
  /\ added' = Append(added, IntArg(irect))
  /\ UNCHANGED ctxVars

NextArea ==
  \/ \E rect \in AreaRealRects : AreaAddRect(rect)
  \/ \E irect \in AreaIntRects : AreaAddIRect(irect)

InitArea == InitContext(DiffScene)
SpecArea == InitArea /\ [][NextArea]_vars

\* a fresh DamageArea after the AddRect calls of `args`, in their order
RECURSIVE AreaAfter(_, _)
AreaAfter(area, args) ==
  IF args = <<>> THEN area ELSE AreaAfter(AddArg(area, Head(args)), Tail(args))

\* the region an argument covers, in real coordinates
Extent(a) == IF a.real THEN a.rect ELSE MakeFromIRect(a.rect)

\* C9: the bounds of a DamageArea after a sequence of AddRect calls are the
\* bounds it has after the same calls in any other order.
C9_AddRectOrderIrrelevant ==
  \A p \in Permutations(1..Len(added)) :
    AreaAfter(MakeEmpty, [k \in 1..Len(added) |-> added[p[k]]]) = bounds_

\* two different non-empty rectangles, a real and an integer one, were added
\* and the bounds are larger than either
C9_Witness ==
  \E i, j \in 1..Len(added) :
    /\ added[i].real /\ ~added[j].real
    /\ ~isEmpty(added[i].rect) /\ ~isEmpty(added[j].rect)
    /\ bounds_ /= roundOut(added[i].rect) /\ bounds_ /= added[j].rect

\* C10: a DamageArea starts empty; its bounds contain every non-empty
\* rectangle added so far, a real one in full (it is rounded outward); and no
\* AddRect call shrinks the bounds.
C10_AreaNeverUnderestimates ==
  /\ isEmpty(bounds_)
  /\ [](\A k \in 1..Len(added) : Contains(MakeFromIRect(bounds_), Extent(added[k])))
  /\ [][Contains(bounds_', bounds_)]_vars

\* a rectangle with sub-pixel edges was added after another one and the
\* bounds reach beyond it on every side it does not end on a pixel
C10_Witness ==
  \E k \in 2..Len(added) :
    /\ added[k].real
    /\ ~isEmpty(added[k].rect)
    /\ MakeFromIRect(roundOut(added[k].rect)) /= added[k].rect
    /\ ~isEmpty(Extent(added[1]))
    /\ Contains(MakeFromIRect(bounds_), added[k].rect)

\* ------------------------------------------------- the result of FinishFrame
\* FinishFrame has returned and InitFrame has not been called since
Returned == last.valid

\* the full output rectangle [0, 0, width, height] of a frame size
OutputRect(size) == Rect(0, 0, size.width, size.height)

\* the frame that returned last was diffed against a previous frame of its size
Diffed ==
  /\ last.valid
  /\ ~last.previous.null
  /\ last.previous.layer_tree_size = last.size

\* the records the frame that returned last put into its FrameDescription
LastEntries == last.frame_description.entries

\* record e has an equivalent record in `entries`
HasEquivalent(entries, e) ==
  \E k \in 1..Len(entries) : LayerContributionEq(entries[k], e)

\* the returned damage contains the real rectangle r
Damaged(r) == Contains(MakeFromIRect(last.area), r)

\* C1 as stated: with no previous frame the returned damage is the full
\* output rectangle, whatever records and delegates the frame had.
C1_NoHistoryExactlyFull ==
  (Returned /\ last.previous.null) =>
    SameRegion(last.area, OutputRect(last.size))

\* C1, amended: with no previous frame the returned damage contains the full
\* output rectangle, and it is the full output rectangle when no delegate
\* reported a rectangle that reaches outside of it.
C1_NoHistoryFullDamage ==
  (Returned /\ last.previous.null) =>
    /\ Contains(last.area, OutputRect(last.size))
    /\ (\A k \in 1..Len(last.delegates) :
          Contains(MakeIWH(last.size.width, last.size.height),
                   last.delegates[k].reported_damage))
       => SameRegion(last.area, OutputRect(last.size))

\* a frame without previous frame returned, with records and a delegate that
\* reported a rectangle
C1_Witness ==
  /\ Returned /\ last.previous.null
  /\ ~SizeIsEmpty(last.size)
  /\ last.entries /= <<>>
  /\ \E k \in 1..Len(last.delegates) : ~isEmpty(last.delegates[k].reported_damage)

\* C2: when the previous frame had another size, the whole output of the new
\* size is damaged, whether or not the records have equivalents in the
\* previous frame: the damage contains the full output rectangle and, with
\* no delegate registered, is the full output rectangle.
C2_SizeChangeFullDamage ==
  (Returned /\ ~last.previous.null /\ last.previous.layer_tree_size /= last.size) =>
    /\ Contains(last.area, OutputRect(last.size))
    /\ SameRegion(last.structural, OutputRect(last.size))
    /\ last.delegates = <<>> => SameRegion(last.area, OutputRect(last.size))

\* a frame returned whose previous frame had another, non-empty size and an
\* equivalent for every record of the frame
C2_Witness ==
  /\ Returned /\ ~last.previous.null
  /\ ~SizeIsEmpty(last.size) /\ ~SizeIsEmpty(last.previous.layer_tree_size)
  /\ last.previous.layer_tree_size /= last.size
  /\ LastEntries /= <<>>
  /\ \A k \in 1..Len(LastEntries) : HasEquivalent(last.previous.entries, LastEntries[k])

\* the two frames hold the same records in the same paint order
SameRecords(cur, prev) ==
  /\ Len(cur) = Len(prev)
  /\ \A k \in 1..Len(cur) :
       /\ LayerContributionEq(cur[k], prev[k])
       /\ cur[k].paint_order = prev[k].paint_order

\* C3: a frame that is given the snapshot of a frame of the same non-empty
\* size and receives the same records (comparator, bounds, mutators, content)
\* in the same order returns an empty damage area.
C3_NoChangeNoDamage ==
  (Diffed /\ ~SizeIsEmpty(last.size) /\ SameRecords(LastEntries, last.previous.entries))
    => isEmpty(last.area)

\* an unchanged frame of two records returned, with a delegate registered
C3_Witness ==
  /\ Diffed /\ ~SizeIsEmpty(last.size)
  /\ SameRecords(LastEntries, last.previous.entries)
  /\ Len(LastEntries) >= 2
  /\ last.delegates /= <<>>
  /\ isEmpty(last.area)

\* C4: the bounds of every record of the previous frame that has no
\* equivalent among the records appended to this frame (the layer is gone)
\* are contained in the returned damage.
C4_RemovalDamage ==
  Diffed =>
    \A k \in 1..Len(last.previous.entries) :
      ~HasEquivalent(last.entries, last.previous.entries[k])
        => Damaged(last.previous.entries[k].paint_bounds)

\* a frame returned that kept one layer of the previous frame and lost another
C4_Witness ==
  /\ Diffed
  /\ \E k \in 1..Len(last.previous.entries) :
       ~HasEquivalent(last.entries, last.previous.entries[k])
  /\ \E k \in 1..Len(last.previous.entries) :
       HasEquivalent(last.entries, last.previous.entries[k])

\* C5: the bounds of every record appended to this frame with non-empty
\* bounds that has no equivalent in the previous frame (the layer is new, or
\* its content or bounds changed) are contained in the returned damage.
C5_AdditionDamage ==
  Diffed =>
    \A k \in 1..Len(last.entries) :
      (~isEmpty(last.entries[k].paint_bounds)
         /\ ~HasEquivalent(last.previous.entries, last.entries[k]))
        => Damaged(last.entries[k].paint_bounds)

\* a frame returned with one record that has an equivalent in the previous
\* frame and one that has none
C5_Witness ==
  /\ Diffed
  /\ \E k \in 1..Len(last.entries) :
       /\ ~isEmpty(last.entries[k].paint_bounds)
       /\ ~HasEquivalent(last.previous.entries, last.entries[k])
  /\ \E k \in 1..Len(last.entries) :
       HasEquivalent(last.previous.entries, last.entries[k])

\* the records at positions i and i + 1 of the previous frame are swapped in
\* this frame and every other record is where it was
SwappedAt(cur, prev, i) ==
  /\ Len(cur) = Len(prev)
  /\ i + 1 <= Len(cur)
  /\ ~LayerContributionEq(prev[i], prev[i + 1])
  /\ LayerContributionEq(cur[i], prev[i + 1])
  /\ LayerContributionEq(cur[i + 1], prev[i])
  /\ \A k \in 1..Len(cur) : k \notin {i, i + 1} => LayerContributionEq(cur[k], prev[k])

\* the damage of two records that swapped their paint order
SwapDamage(a, b) ==
  IF intersects(a.paint_bounds, b.paint_bounds)
    THEN join(roundOut(a.paint_bounds), roundOut(b.paint_bounds))
    ELSE MakeEmpty

\* C6: when this frame differs from the previous one only in that two
\* records swapped their paint order, the structural damage is the union of
\* the bounds of the two when these intersect and empty when they do not, and
\* with no delegate registered this is the damage returned.
C6_SwapDamage ==
  Diffed =>
    \A i \in 1..Len(LastEntries) :
      SwappedAt(LastEntries, last.previous.entries, i) =>
        /\ last.structural =
             SwapDamage(last.previous.entries[i], last.previous.entries[i + 1])
        /\ last.delegates = <<>> => last.area = last.structural

\* [0,0,10,10] and [5,5,15,15] swapped and the damage returned is [0,0,15,15]
C6_Witness ==
  /\ Diffed
  /\ SwappedAt(LastEntries, last.previous.entries, 1)
  /\ last.previous.entries[1].paint_bounds = PxRect(0, 0, 10, 10)
  /\ last.previous.entries[2].paint_bounds = PxRect(5, 5, 15, 15)
  /\ last.delegates = <<>>
  /\ last.area = Rect(0, 0, 15, 15)

\* the two chains differ in length or in the value of some pair of mutators
ChainsDiffer(m1, m2) ==
  \/ Len(m1) /= Len(m2)
  \/ \E k \in 1..Len(m1) : m1[k].value /= m2[k].value

\* record r is record p of the previous frame (same comparator, bounds and
\* layer content) under another chain of mutators
MutatorsChanged(r, p) ==
  /\ r.comparator = p.comparator
  /\ r.paint_bounds = p.paint_bounds
  /\ (r.layer.id = p.layer.id \/ comparator_call(r.comparator, r.layer, p.layer))
  /\ ChainsDiffer(r.mutator_node, p.mutator_node)

\* C7 as stated: a record that is a record of the previous frame under
\* another chain of mutators is not equivalent to it and its bounds are
\* contained in the damage.
C7_MutatorChangeAlwaysDamages ==
  Diffed =>
    \A k \in 1..Len(LastEntries) : \A j \in 1..Len(last.previous.entries) :
      MutatorsChanged(LastEntries[k], last.previous.entries[j]) =>
        /\ ~LayerContributionEq(LastEntries[k], last.previous.entries[j])
        /\ Damaged(LastEntries[k].paint_bounds)

\* C7, amended: a record that is a record of the previous frame under
\* another chain of mutators is not equivalent to it, and its bounds are
\* contained in the damage unless the previous frame holds another record,
\* one that is equivalent to it.
C7_MutatorSensitivity ==
  Diffed =>
    \A k \in 1..Len(LastEntries) : \A j \in 1..Len(last.previous.entries) :
      MutatorsChanged(LastEntries[k], last.previous.entries[j]) =>
        /\ ~LayerContributionEq(LastEntries[k], last.previous.entries[j])
        /\ ~HasEquivalent(last.previous.entries, LastEntries[k])
             => Damaged(LastEntries[k].paint_bounds)

\* a frame returned in which the one layer of the previous frame is under a
\* chain whose first node has the value of the old one and which is longer
C7_Witness ==
  /\ Diffed
  /\ Len(LastEntries) = 1 /\ Len(last.previous.entries) = 1
  /\ MutatorsChanged(LastEntries[1], last.previous.entries[1])
  /\ Len(LastEntries[1].mutator_node) = 2
  /\ Len(last.previous.entries[1].mutator_node) = 1
  /\ ~isEmpty(last.area)

\* all delegates of the sequence report their readback bounds exactly when
\* these intersect the damage they are asked about (they hold no snapshot)
ReportOnIntersection(delegates, dstate) ==
  \A k \in 1..Len(delegates) : ~dstate[delegates[k].delegate].snapshot

\* C8: with n registered delegates that report their rectangle exactly when
\* it intersects the damage so far, the loop of FinishDelegates ends within
\* n + 1 iterations, and the returned damage contains the rectangle every
\* delegate reported last.
C8_DelegatesConverge ==
  /\ (pc = "delegates" /\ ReportOnIntersection(delegates_, delegate_state))
       => passes <= Len(delegates_)
  /\ (Returned /\ ReportOnIntersection(last.delegates, delegate_state)) =>
       /\ last.passes <= Len(last.delegates) + 1
       /\ \A k \in 1..Len(last.delegates) :
            Damaged(last.delegates[k].reported_damage)

\* a frame returned after n + 1 iterations, every one of its n >= 2 delegates
\* having reported its rectangle
C8_Witness ==
  /\ Returned
  /\ ReportOnIntersection(last.delegates, delegate_state)
  /\ Len(last.delegates) >= 2
  /\ last.passes = Len(last.delegates) + 1
  /\ \A k \in 1..Len(last.delegates) : ~isEmpty(last.delegates[k].reported_damage)

\* ------------------------------------------------- the state between frames
\* a step of the caller that is a call of InitFrame
InitFrameCalled ==
  \E size \in scene.sizes : \E previous \in {NoFrame, held} :
    InitFrame(size, previous)

\* C11 as stated: right after every InitFrame call layer_entries_ and
\* delegates_ are both empty, whatever was called before.
C11_InitResetsFrameState ==
  [][InitFrameCalled => (layer_entries_' = <<>> /\ delegates_' = <<>>)]_vars

\* the fields of the DamageContext have the values they have after
\* construction
ContextIdle ==
  /\ layer_entries_ = <<>>
  /\ delegates_ = <<>>
  /\ SizeIsEmpty(current_layer_tree_size_)
  /\ previous_frame_.null

\* C12: when FinishFrame has returned, layer_entries_ and delegates_ are
\* empty, the stored size is empty and no previous frame is referenced: the
\* context is in the state it had after construction, so the next frame
\* starts from nothing but its own arguments.
C12_FinishReturnsToIdle ==
  Returned => (ContextIdle /\ pc = "idle")

\* a frame with records, a delegate and a previous frame has returned and
\* left the context idle
C12_Witness ==
  /\ Returned /\ ContextIdle
  /\ Len(last.entries) >= 2
  /\ last.delegates /= <<>>
  /\ ~last.previous.null

\* a step of the caller that is a call of AddLayerContribution
AddLayerContributionCalled ==
  \E c \in scene.calls : AddLayerContribution(c)

WithoutEmpty(les) ==
  LET painted(e) == ~isEmpty(e.paint_bounds) IN SelectSeq(les, painted)

\* the damage area after the AddDamageRect calls of `events`
AreaOfEvents(events) ==
  AddDamageRects([area |-> MakeEmpty, dstate |-> <<>>, log |-> <<>>], <<>>, events).area

\* C14: a record whose bounds are empty when FinishFrame runs is not in the
\* new FrameDescription (no record of it has empty bounds, so none is
\* equivalent to it), the structural damage of the frame is what it would be
\* had the record not been appended, and the previous frame a later frame is
\* diffed against holds no record with empty bounds either.
C14_EmptyBoundsExcluded ==
  Returned =>
    /\ \A k \in 1..Len(LastEntries) : ~isEmpty(LastEntries[k].paint_bounds)
    /\ \A k \in 1..Len(last.entries) :
         isEmpty(last.entries[k].paint_bounds)
           => ~HasEquivalent(LastEntries, last.entries[k])
    /\ last.structural =
         AreaOfEvents(StructuralEvents(FrameEntries(WithoutEmpty(last.entries)),
                                       last.previous, last.size).events)
    /\ \A k \in 1..Len(last.previous.entries) :
         ~isEmpty(last.previous.entries[k].paint_bounds)

\* a diffed frame has returned in which layer 1, appended at RectA, had come
\* to have empty bounds before a record with bounds was appended
C14_Witness ==
  /\ Diffed
  /\ Len(last.entries) >= 2
  /\ last.entries[1].layer.id = 1 /\ isEmpty(last.entries[1].paint_bounds)
  /\ ~isEmpty(last.entries[2].paint_bounds)
  /\ Len(LastEntries) = 1
  /\ HasEquivalent(last.previous.entries, LastEntries[1])
  /\ isEmpty(last.structural)

\* ------------------------------------------------------------ paint orders
\* C15 as stated: the paint_order of every record of the new FrameDescription
\* is its position (from 0) among the records with bounds in the order of
\* appending, so that records with empty bounds take no index.
C15_PaintOrderIsFinalPosition ==
  Returned => \A k \in 1..Len(LastEntries) : LastEntries[k].paint_order = k - 1

\* C15, amended: the paint_order of every record of the new FrameDescription
\* is the index the record has in layer_entries_, which is what PaintOrder()
\* of its handle returns; the records appended before it count whether or
\* not they are retained, and paint orders grow in the order of appending.
C15_PaintOrderIsEntryIndex ==
  Returned =>
    /\ \A k \in 1..Len(LastEntries) :
         LET i == LastEntries[k].paint_order + 1
         IN /\ i \in 1..Len(last.entries)
            /\ LastEntries[k] = [last.entries[i] EXCEPT !.paint_order = PaintOrder(i)]
    /\ \A j, k \in 1..Len(LastEntries) :
         j < k => LastEntries[j].paint_order < LastEntries[k].paint_order

\* a frame has returned whose first record had empty bounds and whose second
\* record is retained with paint order 1
C15_Witness ==
  /\ Returned
  /\ Len(last.entries) = 2
  /\ isEmpty(last.entries[1].paint_bounds)
  /\ Len(LastEntries) = 1
  /\ LastEntries[1].paint_order = 1

\* ------------------------------------------------- the returned FrameDescription
\* C16: the FrameDescription that FinishFrame returns has the tree size given
\* to InitFrame and holds an equivalent of every record of layer_entries_
\* with bounds, both when the frame took full damage and when it was diffed.
\* Hence a frame given the FrameDescription of a frame with the same records
\* returns empty damage, and a frame given no previous frame returns damage
\* that contains the full output.
C16_SnapshotCarriesFrame ==
  Returned =>
    /\ last.frame_description.layer_tree_size = last.size
    /\ ~last.frame_description.null
    /\ \A k \in 1..Len(last.entries) :
         ~isEmpty(last.entries[k].paint_bounds)
           => HasEquivalent(LastEntries, last.entries[k])
    /\ held = last.frame_description
    /\ (Diffed /\ last.previous.entries = LastEntries) => isEmpty(last.area)
    /\ last.previous.null => Contains(last.area, OutputRect(last.size))

\* a frame has returned that appended two records with bounds and was given
\* the FrameDescription of a frame with the very same records
C16_Witness ==
  /\ Diffed
  /\ Len(last.entries) = 2 /\ Len(LastEntries) = 2
  /\ last.previous.entries = LastEntries
  /\ last.previous = last.frame_description
  /\ held = last.previous
  /\ isEmpty(last.area)

\* ------------------------------------------------- the previous FrameDescription
\* FinishFrame returns in this step
FinishFrameReturns == pc = "delegates" /\ pc' = "idle"

\* C17: the FrameDescription given to InitFrame is not modified.  While a
\* frame refers to it, it is as the caller holds it; AddLayerContribution,
\* AddDelegate (which reads PreviousPaintOrder), UpdatePaintBounds and the
\* steps of FinishFrame leave it and the caller's FrameDescription as they
\* are, until FinishFrame returns, having diffed against it unmodified.
C17_PreviousFrameNotModified ==
  /\ [](~previous_frame_.null => previous_frame_ = held)
  /\ [][(~InitFrameCalled /\ ~FinishFrameReturns)
          => (previous_frame_' = previous_frame_ /\ held' = held)]_vars
  /\ [][FinishFrameReturns
          => (last'.previous = previous_frame_
              /\ (~previous_frame_.null => previous_frame_ = held))]_vars

\* FinishFrame has diffed against a previous frame with records, after a
\* record that matched one of them had its bounds updated and a delegate had
\* been added
C17_Witness ==
  /\ pc = "delegates"
  /\ ~previous_frame_.null /\ previous_frame_ = held
  /\ delegates_ /= <<>>
  /\ \E k \in 1..Len(layer_entries_) : \E j \in 1..Len(previous_frame_.entries) :
       /\ layer_entries_[k].layer = previous_frame_.entries[j].layer
       /\ layer_entries_[k].paint_bounds /= previous_frame_.entries[j].paint_bounds
       /\ layer_entries_[k].layer.id = 1
       /\ previous_frame_.entries[j].paint_bounds = RectA
  /\ ~isEmpty(res.area)

\* ------------------------------------------------- the delegates of a frame
\* a step of FinishFrame: its diff, or an iteration of FinishDelegates
FinishFrameStep == (pc = "idle" /\ pc' = "delegates") \/ pc = "delegates"

\* C18: a delegate is registered for one frame.  FinishFrame and InitFrame
\* leave delegates_ empty, FinishFrame calls OnDamageAdded and
\* OnReportAdditionalDamage only on delegates that AddDelegate was called with
\* since the frame began, and no step of FinishFrame changes a field of a
\* delegate of an earlier frame that was not added again.
C18_RegistrationLastsOneFrame ==
  /\ [](Called(res.log) \subseteq last.registered)
  /\ [](Returned => (delegates_ = <<>> /\ Called(last.log) \subseteq last.registered))
  /\ [][InitFrameCalled => delegates_' = <<>>]_vars
  /\ [][FinishFrameStep =>
          \A d \in DOMAIN delegate_state :
            d \notin last'.registered =>
              (d \in DOMAIN delegate_state' /\ delegate_state'[d] = delegate_state[d])]_vars

\* a diffed frame has returned in which delegate 2 was added and called with
\* damage in the readback region of delegate 1, a delegate of an earlier
\* frame that was not added again
C18_Witness ==
  /\ Diffed
  /\ 1 \in DOMAIN delegate_state
  /\ last.registered = {2}
  /\ \E k \in 1..Len(last.log) :
       /\ last.log[k].op = "OnDamageAdded"
       /\ last.log[k].delegate = 2
       /\ intersects(ReadbackBounds(1), last.log[k].rect)

\* the record that caused the AddDamageRect call e of the frame that returned
\* last: a record of this frame or of the previous one with the bounds and
\* the paint order of the call, or the full-frame invalidation
CausedByRecord(e) ==
  LET from == IF e.source = kThisFrame THEN LastEntries ELSE last.previous.entries
  IN \E k \in 1..Len(from) :
       from[k].paint_bounds = e.rect /\ from[k].paint_order = e.paint_order

\* C19: for every AddDamageRect call of the diff (the full output rectangle,
\* a record of this frame or of the previous one without a match, a record of
\* a reordered pair) OnDamageAdded is called once on every delegate of
\* delegates_, in their order, with the rectangle, the source and the paint
\* order of the call; these are those of the record that caused it, and
\* every record without a match causes such a call.
C19_DamageAddedPerRectangle ==
  Returned =>
    LET n == Len(last.delegates)
        ev == last.events
    IN /\ last.structural_calls = Len(ev) * n
       /\ \A j \in 1..Len(ev) : \A m \in 1..n :
            last.log[(j - 1) * n + m] =
              DamageAddedCall(last.delegates[m].delegate,
                              ev[j].rect, ev[j].source, ev[j].paint_order)
       /\ \A j \in 1..Len(ev) : Contains(MakeFromIRect(last.structural), ev[j].rect)
       /\ IF FullDamage(last.previous, last.size)
            THEN ev = << DamageEvent(MakeIWH(last.size.width, last.size.height),
                                     kThisFrame, -1) >>
            ELSE /\ \A j \in 1..Len(ev) : CausedByRecord(ev[j])
                 /\ \A k \in 1..Len(LastEntries) :
                      ~HasEquivalent(last.previous.entries, LastEntries[k]) =>
                        \E j \in 1..Len(ev) :
                          ev[j] = DamageEvent(LastEntries[k].paint_bounds, kThisFrame,
                                              LastEntries[k].paint_order)
                 /\ \A k \in 1..Len(last.previous.entries) :
                      ~HasEquivalent(LastEntries, last.previous.entries[k]) =>
                        \E j \in 1..Len(ev) :
                          ev[j] = DamageEvent(last.previous.entries[k].paint_bounds,
                                              kPreviousFrame,
                                              last.previous.entries[k].paint_order)

\* a diffed frame with two delegates has returned in which a record of this
\* frame and a record of the previous frame had no match
C19_Witness ==
  /\ Diffed
  /\ Len(last.delegates) = 2
  /\ \E j \in 1..Len(last.events) : last.events[j].source = kThisFrame
  /\ \E j \in 1..Len(last.events) : last.events[j].source = kPreviousFrame
  /\ last.structural_calls = 2 * Len(last.events)

\* in `log`, whose first n calls were made by the diff, these are all
\* OnDamageAdded calls, and every OnReportAdditionalDamage call comes after
\* them and is given bounds that contain the structural damage
ReportsFollowDiff(log, n, structural) ==
  /\ n <= Len(log)
  /\ \A k \in 1..n : log[k].op = "OnDamageAdded"
  /\ \A k \in 1..Len(log) :
       log[k].op = "OnReportAdditionalDamage" =>
         /\ k > n
         /\ Contains(log[k].rect, MakeFromIRect(structural))

\* C20: when FinishDelegates is entered, every AddDamageRect call of the
\* diff has been made: the area holds the structural damage and every
\* delegate has had its OnDamageAdded for each of them, and no
\* OnReportAdditionalDamage call has been made; every such call of the frame
\* comes after them.
C20_ReportAfterStructuralDamage ==
  /\ pc = "delegates" =>
       /\ res.structural = AreaOfEvents(res.events)
       /\ res.structural_calls = Len(res.events) * Len(delegates_)
       /\ passes = 0 => (res.area = res.structural /\ Len(res.log) = res.structural_calls)
       /\ ReportsFollowDiff(res.log, res.structural_calls, res.structural)
  /\ Returned =>
       /\ last.structural = AreaOfEvents(last.events)
       /\ last.structural_calls = Len(last.events) * Len(last.delegates)
       /\ ReportsFollowDiff(last.log, last.structural_calls, last.structural)
       /\ Len(last.log) >= last.structural_calls + Len(last.delegates)

\* a diffed frame with two delegates has returned: the diff added two
\* rectangles, and a delegate then reported a rectangle
C20_Witness ==
  /\ Diffed
  /\ Len(last.delegates) = 2
  /\ Len(last.events) >= 2
  /\ \E k \in 1..Len(last.log) :
       /\ last.log[k].op = "OnReportAdditionalDamage"
       /\ ~isEmpty(last.log[k].result)
       /\ ~isEmpty(last.log[k].rect)

\* ------------------------------------------------- the loop of FinishDelegates
\* the rectangle that delegate d returned from its last
\* OnReportAdditionalDamage call before call k of `log` (reported_damage of
\* its DelegateRecord at that time); empty when it had not been asked yet
PreviousReport(log, k, d) ==
  LET S == { j \in 1..(k - 1) :
               log[j].op = "OnReportAdditionalDamage" /\ log[j].delegate = d }
  IN IF S = {} THEN MakeEmpty
     ELSE log[CHOOSE j \in S : \A i \in S : i <= j].result

\* the calls of `log` after call k up to the next OnReportAdditionalDamage call
CallsUntilNextReport(log, k) ==
  LET later == { j \in (k + 1)..Len(log) : log[j].op = "OnReportAdditionalDamage" }
      end == IF later = {} THEN Len(log)
             ELSE (CHOOSE j \in later : \A i \in later : j <= i) - 1
  IN SubSeq(log, k + 1, end)

\* the callbacks in `log` after the first n are those of the loop over
\* `delegates` as C21 describes it, and `area` is the damage at the end
LoopNotifiesOthers(log, n, delegates, area) ==
  /\ Len(log) > n => log[n + 1].op = "OnReportAdditionalDamage"
  /\ \A k \in (n + 1)..Len(log) :
       log[k].op = "OnReportAdditionalDamage" =>
         \E m \in 1..Len(delegates) :
           LET d == delegates[m]
               others == SelectSeq(delegates, LAMBDA x : x.delegate /= d.delegate)
               after == CallsUntilNextReport(log, k)
           IN /\ d.delegate = log[k].delegate
              /\ IF log[k].result /= PreviousReport(log, k, d.delegate)
                   THEN /\ Len(after) = Len(others)
                        /\ \A j \in 1..Len(others) :
                             after[j] = DamageAddedCall(others[j].delegate, log[k].result,
                                                        kThisFrame, d.paint_order)
                        /\ Contains(MakeFromIRect(area), log[k].result)
                        /\ k + Len(after) < Len(log) =>
                             Contains(log[k + Len(after) + 1].rect, log[k].result)
                   ELSE after = <<>>

\* C21: in the loop of FinishDelegates, when the rectangle a delegate returns
\* from OnReportAdditionalDamage differs from the one it returned the last
\* time in this frame (empty at first), the rectangle is joined to the damage
\* area and OnDamageAdded is called on every other delegate of delegates_,
\* not on the delegate itself, with the rectangle, kThisFrame and the paint
\* order of the reporting delegate; when it returns the same rectangle
\* again no OnDamageAdded call is made.
C21_ChangedReportNotifiesOthers ==
  /\ pc = "delegates" =>
       LoopNotifiesOthers(res.log, res.structural_calls, delegates_, res.area)
  /\ Returned =>
       LoopNotifiesOthers(last.log, last.structural_calls, last.delegates, last.area)

\* a frame with two delegates has returned: one of them reported a rectangle
\* that was not empty, the other was told of it, and both were asked again
\* and returned what they had returned before
C21_Witness ==
  /\ Returned
  /\ Len(last.delegates) = 2
  /\ \E k \in (last.structural_calls + 1)..(Len(last.log) - 1) :
       /\ last.log[k].op = "OnReportAdditionalDamage"
       /\ ~isEmpty(last.log[k].result)
       /\ last.log[k + 1].op = "OnDamageAdded"
       /\ last.log[k + 1].delegate /= last.log[k].delegate
       /\ last.log[k + 1].rect = last.log[k].result
  /\ \E k \in (last.structural_calls + 1)..Len(last.log) :
       /\ last.log[k].op = "OnReportAdditionalDamage"
       /\ ~isEmpty(last.log[k].result)
       /\ last.log[k].result = PreviousReport(last.log, k, last.log[k].delegate)

\* the positions in `log`, after the first n calls, of the
\* OnReportAdditionalDamage calls, in their order
ReportPositions(log, n) ==
  LET isReport(k) == log[k].op = "OnReportAdditionalDamage"
  IN SelectSeq([k \in 1..(Len(log) - n) |-> n + k], isReport)

\* the r-th OnReportAdditionalDamage call of the loop returned another
\* rectangle than the same delegate had returned before
ReportChanged(log, n, r) ==
  LET k == ReportPositions(log, n)[r]
  IN log[k].result /= PreviousReport(log, k, log[k].delegate)

\* the OnReportAdditionalDamage calls of `log` make `done` whole passes over
\* `delegates`, each in the order of delegates_
WholePasses(log, n, delegates, done) ==
  LET R == ReportPositions(log, n)
  IN /\ Len(R) = done * Len(delegates)
     /\ \A r \in 1..Len(R) :
          log[R[r]].delegate = delegates[((r - 1) % Len(delegates)) + 1].delegate

\* C22: FinishFrame returns only after a whole pass over delegates_ in which
\* every delegate returned from OnReportAdditionalDamage what it had returned
\* before, and this pass ends the log of callbacks; a delegate that returned
\* something else in a pass, be it the last delegate of the pass, is
\* followed by a further whole pass.  While the loop runs, every pass done
\* was whole and the last of them had a change.
C22_ReturnAfterUnchangedPass ==
  /\ Returned =>
       LET n == Len(last.delegates)
           R == ReportPositions(last.log, last.structural_calls)
       IN /\ last.passes >= 1
          /\ WholePasses(last.log, last.structural_calls, last.delegates, last.passes)
          /\ \A r \in 1..Len(R) :
               ReportChanged(last.log, last.structural_calls, r)
                 => Len(R) >= (((r - 1) \div n) + 2) * n
          /\ \A r \in (Len(R) - n + 1)..Len(R) :
               ~ReportChanged(last.log, last.structural_calls, r)
          /\ n > 0 => R[Len(R) - n + 1] = Len(last.log) - n + 1
  /\ pc = "delegates" =>
       LET n == Len(delegates_)
           R == ReportPositions(res.log, res.structural_calls)
       IN /\ WholePasses(res.log, res.structural_calls, delegates_, passes)
          /\ passes > 0 =>
               \E r \in (Len(R) - n + 1)..Len(R) :
                 ReportChanged(res.log, res.structural_calls, r)

\* a frame with two delegates has returned: in the first pass the delegate
\* asked last returned a rectangle, and a further pass followed
C22_Witness ==
  /\ Returned
  /\ Len(last.delegates) = 2
  /\ last.passes >= 2
  /\ ReportChanged(last.log, last.structural_calls, 2)
  /\ Len(ReportPositions(last.log, last.structural_calls)) = 2 * last.passes

\* a delegate of the alternating class is registered in `delegates`
AlternatingRegistered(delegates) ==
  \E k \in 1..Len(delegates) :
    /\ delegates[k].delegate \in DOMAIN delegate_state
    /\ delegate_state[delegates[k].delegate].alternates

\* C23: the loop of FinishDelegates has no cap on its iterations and does not
\* detect cycles.  While a delegate is registered whose
\* OnReportAdditionalDamage returns another rectangle at every call, every
\* iteration ends with all_good unset, whatever the number of iterations
\* done: the loop is not left, and no frame with such a delegate returns.
C23_ChangingDelegateNeverReturns ==
  /\ (pc = "delegates" /\ AlternatingRegistered(delegates_)) =>
       /\ ~FinishDelegatesIteration(delegates_, delegate_state,
                                    res.area, res.log).all_good
       /\ WholePasses(res.log, res.structural_calls, delegates_, passes)
  /\ Returned => ~AlternatingRegistered(last.delegates)

\* FinishDelegates has made MaxPasses iterations over a BackdropFilterLayer
\* and a delegate of the alternating class, which returned its rectangle,
\* then the empty rectangle, then its rectangle again ... and the next
\* iteration will not end the loop either
C23_Witness ==
  /\ pc = "delegates"
  /\ passes = MaxPasses
  /\ Len(delegates_) = 2
  /\ AlternatingRegistered(delegates_)
  /\ \E d \in Registered(delegates_) :
       LET asked == SelectSeq(res.log, LAMBDA c : c.op = "OnReportAdditionalDamage"
                                                   /\ c.delegate = d)
       IN /\ Len(asked) = MaxPasses
          /\ \A k \in 1..Len(asked) :
               asked[k].result = IF k % 2 = 1 THEN ReadbackBounds(d) ELSE MakeEmpty
  /\ ~FinishDelegatesIteration(delegates_, delegate_state, res.area, res.log).all_good

\* ------------------------------------------------- the handle and the previous frame
\* what PreviousLayer() and PreviousPaintOrder() return for record e, by
\* C24: layer and paint order of one record of `previous` that is equal to
\* e, nullptr and -1 when there is no previous frame or no such record
PreviousOf(e, previous, layer, paint_order) ==
  IF previous.null \/ ~HasEquivalent(previous.entries, e)
    THEN layer = NoLayer /\ paint_order = -1
    ELSE \E j \in 1..Len(previous.entries) :
           /\ LayerContributionEq(previous.entries[j], e)
           /\ layer = previous.entries[j].layer
           /\ paint_order = previous.entries[j].paint_order
           /\ paint_order >= 0

\* C24: for every handle that AddLayerContribution returned in this frame,
\* PreviousLayer() is the layer of the record of the previous frame that is
\* equal to the record of the handle and PreviousPaintOrder() the paint
\* order of that record, which is the one FinishFrame gave it when it built
\* the FrameDescription the caller holds; both are nullptr and -1 when
\* previous_frame_ is nullptr or holds no equal record.  These are the
\* values a BackdropFilterLayer reads from its handle in Preroll.
C24_PreviousLayerAndPaintOrder ==
  /\ \A k \in 1..Len(handles) :
       LET e == layer_entries_[handles[k].index_ + 1]
       IN PreviousOf(e, previous_frame_,
                     PreviousLayer(e, previous_frame_),
                     PreviousPaintOrder(e, previous_frame_))
  /\ \A k \in 1..Len(delegates_) :
       LET e == layer_entries_[delegates_[k].paint_order + 1]
       IN PreviousOf(e, previous_frame_, PreviousLayer(e, previous_frame_),
                     delegate_state[delegates_[k].delegate].previous_paint_order_)
  /\ ~previous_frame_.null => previous_frame_ = held
  /\ Returned =>
       /\ held = last.frame_description
       /\ \A j \in 1..Len(held.entries) :
            held.entries[j].paint_bounds
              = last.entries[held.entries[j].paint_order + 1].paint_bounds

\* the second record of the frame belongs to a delegate and is equal to the
\* first record of the previous frame, which has another layer object: the
\* delegate has read paint order 0 from its handle, whose PreviousLayer() is
\* that layer; the first record of the frame has no equal in the previous
\* frame
C24_Witness ==
  /\ pc = "idle"
  /\ Len(handles) = 2 /\ Len(delegates_) = 1
  /\ delegates_[1].paint_order = 1
  /\ ~previous_frame_.null
  /\ ~HasEquivalent(previous_frame_.entries, layer_entries_[1])
  /\ delegate_state[delegates_[1].delegate].previous_paint_order_ = 0
  /\ LET previous_layer == PreviousLayer(layer_entries_[2], previous_frame_)
     IN /\ previous_layer /= NoLayer
        /\ previous_layer.id /= layer_entries_[2].layer.id
        /\ previous_layer = previous_frame_.entries[1].layer

\* ------------------------------------------------- equality of records
\* the records the context and the caller hold: those of the frame in
\* progress, of the previous frame and of the FrameDescription returned last
RecordsHeld ==
  LET all == layer_entries_ \o previous_frame_.entries \o held.entries
               \o last.entries \o last.previous.entries
  IN { all[k] : k \in 1..Len(all) }

\* the records AddLayerContribution builds for the calls of the scenes with
\* layers of several contents, bounds, comparators and chains of mutators
RecordsOfScenes ==
  { Contribution(c) :
      c \in EqualityScene.calls \cup DiffScene.calls \cup MutatorScene.calls }

\* equality of two records as C25 has it
EqualsAsSpecified(a, e) ==
  IF \/ a.comparator /= e.comparator
     \/ a.paint_bounds /= e.paint_bounds
     \/ ChainsDiffer(a.mutator_node, e.mutator_node)
    THEN FALSE
    ELSE IF a.layer.id = e.layer.id THEN TRUE
    ELSE comparator_call(a.comparator, a.layer, e.layer)

\* C25: operator== of two records is false when their comparators differ,
\* when their bounds differ and when their chains of mutators differ in
\* length or in a pair of nodes; otherwise it is true when both refer to the
\* same layer object, the comparator not being called, and else what the
\* comparator returns for the two layers.  This holds of the records the
\* context and the caller hold and of those of all calls of the scenes, and
\* FinishFrame matches and damages records by this equality.
C25_RecordEquality ==
  /\ \A a, e \in RecordsHeld \cup RecordsOfScenes :
       LayerContributionEq(a, e) = EqualsAsSpecified(a, e)
  /\ Diffed =>
       \A k \in 1..Len(LastEntries) :
         (\A j \in 1..Len(last.previous.entries) :
            ~EqualsAsSpecified(LastEntries[k], last.previous.entries[j]))
           => Damaged(LastEntries[k].paint_bounds)

\* a frame of two records has returned without damage: one record has the
\* comparator that never holds and the layer object of a record of the
\* previous frame, the other has another layer object than the record of
\* the previous frame it is equal to
C25_Witness ==
  /\ Diffed
  /\ Len(LastEntries) = 2 /\ Len(last.previous.entries) = 2
  /\ \E k, j \in 1..2 :
       /\ LastEntries[k].comparator = "never"
       /\ LastEntries[k].layer.id = last.previous.entries[j].layer.id
       /\ LayerContributionEq(LastEntries[k], last.previous.entries[j])
  /\ \E k, j \in 1..2 :
       /\ LastEntries[k].layer.id /= last.previous.entries[j].layer.id
       /\ LayerContributionEq(LastEntries[k], last.previous.entries[j])
  /\ isEmpty(last.area)

\* ------------------------------------------------- calls outside of a frame
\* no frame is open: the context is as constructed and no FinishFrame has
\* returned yet, or FinishFrame has returned and InitFrame was not called
\* since
NoFrameOpen ==
  \/ Returned
  \/ (pc = "idle" /\ ContextIdle /\ held.null /\ handles = <<>>)

\* a step of the caller that is a call of AddDelegate on the last handle
AddDelegateCalled ==
  \E d \in scene.delegates : \E snapshot \in scene.snapshots : AddDelegate(d, snapshot)

\* C26: while no frame is open the tree size is empty, so that
\* AddLayerContribution returns a null handle for every call and makes no
\* record: no step that changes the state of the context is an
\* AddLayerContribution call made while no frame is open, and none is an
\* AddDelegate call, there being no handle that is not null.
C26_AppendOutsideFrame ==
  /\ [](NoFrameOpen =>
          /\ SizeIsEmpty(current_layer_tree_size_)
          /\ layer_entries_ = <<>> /\ delegates_ = <<>> /\ handles = <<>>
          /\ \A c \in scene.calls :
               ReturnedHandle(current_layer_tree_size_, layer_entries_, c.matrix)
                 = NullHandle)
  /\ [][~(NoFrameOpen /\ AddLayerContributionCalled)]_vars
  /\ [][~(NoFrameOpen /\ AddDelegateCalled)]_vars

\* FinishFrame has returned a frame with two records and InitFrame has not
\* been called since: every AddLayerContribution call gets a null handle
C26_Witness ==
  /\ Returned /\ NoFrameOpen
  /\ Len(last.entries) = 2 /\ Len(LastEntries) = 2
  /\ layer_entries_ = <<>>
  /\ \A c \in scene.calls :
       ReturnedHandle(current_layer_tree_size_, layer_entries_, c.matrix) = NullHandle

\* ------------------------------------------------- the reordering pass
\* the record of the previous frame that record c of this frame matched
MatchOf(c, previous) == previous.entries[find(previous.entries, c)]

\* the matched records a and b of this frame have bounds that intersect, and
\* a was painted after b in the previous frame and is painted before b in
\* this one
MovedBelow(a, b, previous) ==
  /\ intersects(a.paint_bounds, b.paint_bounds)
  /\ MatchOf(a, previous).paint_order > MatchOf(b, previous).paint_order
  /\ a.paint_order < b.paint_order

\* `event` is among the AddDamageRect calls of the frame that returned last
Announced(event) == \E j \in 1..Len(last.events) : last.events[j] = event

\* C27: in the reordering pass of FinishFrame a matched record adds its
\* bounds to the damage if and only if another matched record has bounds
\* that intersect its own and the two are painted in another order than in
\* the previous frame.  Of such a pair, the record painted later in the
\* previous frame is announced with kPreviousFrame and its previous paint
\* order, the record painted later in this frame with kThisFrame and its
\* paint order; a matched record is announced in no other case.
C27_ReorderDamage ==
  Diffed =>
    LET matched == { k \in 1..Len(LastEntries) :
                       HasEquivalent(last.previous.entries, LastEntries[k]) }
    IN \A k \in matched :
         LET c == LastEntries[k]
             below == \E j \in matched \ {k} :
                        MovedBelow(c, LastEntries[j], last.previous)
             above == \E j \in matched \ {k} :
                        MovedBelow(LastEntries[j], c, last.previous)
         IN /\ below <=> Announced(DamageEvent(c.paint_bounds, kPreviousFrame,
                                               MatchOf(c, last.previous).paint_order))
            /\ above <=> Announced(DamageEvent(c.paint_bounds, kThisFrame, c.paint_order))
            /\ (below \/ above) => Damaged(c.paint_bounds)

\* a frame has returned whose two records are those of the previous frame in
\* the other order, and their bounds intersect: the record that was painted
\* last is announced with kPreviousFrame, the other with kThisFrame
C27_Witness ==
  /\ Diffed
  /\ Len(LastEntries) = 2 /\ Len(last.previous.entries) = 2
  /\ \A k \in 1..2 : HasEquivalent(last.previous.entries, LastEntries[k])
  /\ MovedBelow(LastEntries[1], LastEntries[2], last.previous)
  /\ last.events =
       << DamageEvent(LastEntries[1].paint_bounds, kPreviousFrame, 1),
          DamageEvent(LastEntries[2].paint_bounds, kThisFrame, 1) >>

\* the sequences mp and mc have the same length and mc can be put into an
\* order in which every record is equal to the record of mp in its place
PermutationsUnderEquality(mp, mc) ==
  /\ Len(mp) = Len(mc)
  /\ \E p \in Permutations(1..Len(mp)) :
       \A k \in 1..Len(mp) : LayerContributionEq(mp[k], mc[p[k]])

\* C28: when the reordering pass of a diffed frame begins, matching_previous
\* and matching_current have the same length and hold, up to equality of
\* records, the same records; every walk back over matching_current comes to
\* a record equal to the last record of matching_previous without going
\* past begin(), and the pass ends with both vectors empty.
C28_ReorderTerminates ==
  /\ pc = "delegates" => ~res.overrun
  /\ Diffed =>
       LET mp == matching_previous(LastEntries, last.previous)
           mc == matching_current(LastEntries, last.previous)
           pass == ReorderEvents(mp, mc)
       IN /\ PermutationsUnderEquality(mp, mc)
          /\ \A k \in 1..Len(mp) : ReorderScan(mp[k], mc, Len(mc)).cur /= 0
          /\ ~pass.overrun /\ ~last.overrun
          /\ pass.left = <<>>

\* a frame has returned whose two records were matched with the records of
\* the previous frame, one of them with a record of another layer object,
\* and are painted in the other order: the pass walked back over a record
C28_Witness ==
  /\ Diffed
  /\ Len(matching_previous(LastEntries, last.previous)) = 2
  /\ Len(matching_current(LastEntries, last.previous)) = 2
  /\ ~LayerContributionEq(matching_previous(LastEntries, last.previous)[2],
                          matching_current(LastEntries, last.previous)[2])
  /\ \E k \in 1..Len(LastEntries) :
       /\ HasEquivalent(last.previous.entries, LastEntries[k])
       /\ MatchOf(LastEntries[k], last.previous).layer.id /= LastEntries[k].layer.id
  /\ Len(last.events) = 2
  /\ ~last.overrun

\* ------------------------------------------------- bounds at FinishFrame
\* the bounds the record of `layer` got from its AddLayerContribution call
AppendedBounds(layer) ==
  { Contribution(c).paint_bounds : c \in { x \in scene.calls : x.layer = layer } }

\* the bounds UpdatePaintBounds gives the record of `layer`: what
\* paint_bounds() of the layer returns, mapped by the matrix of its
\* AddLayerContribution call
UpdatedBounds(layer) ==
  { mapRect(c.matrix, paint_bounds) :
      c \in { x \in scene.calls : x.layer = layer },
      paint_bounds \in scene.paint_bounds }

\* C29: FinishFrame diffs the bounds the records have when it is called.  A
\* record has the bounds of its AddLayerContribution call or, after
\* UpdatePaintBounds, the paint bounds of the layer mapped by the matrix of
\* that call; with the bounds it has when FinishFrame is called it is left
\* out as empty or put into the FrameDescription, matched with the records
\* of the previous frame or not, and these bounds are the rectangle it adds
\* to the damage when it is not matched.
C29_FinishUsesCurrentBounds ==
  /\ \A i \in 1..Len(layer_entries_) :
       layer_entries_[i].paint_bounds
         \in AppendedBounds(layer_entries_[i].layer)
               \cup UpdatedBounds(layer_entries_[i].layer)
  /\ Returned =>
       \A i \in 1..Len(last.entries) :
         LET e == last.entries[i]
             kept == \E k \in 1..Len(LastEntries) : LastEntries[k].paint_order = i - 1
         IN /\ isEmpty(e.paint_bounds) => ~kept
            /\ ~isEmpty(e.paint_bounds) =>
                 \E k \in 1..Len(LastEntries) :
                   /\ LayerContributionEq(LastEntries[k], e)
                   /\ LastEntries[k].paint_bounds = e.paint_bounds
            /\ kept =>
                 /\ LastEntries[CHOOSE k \in 1..Len(LastEntries) :
                                  LastEntries[k].paint_order = i - 1].paint_bounds
                      = e.paint_bounds
                 /\ \A j \in 1..Len(last.events) :
                      (last.events[j].source = kThisFrame
                         /\ last.events[j].paint_order = i - 1)
                        => last.events[j].rect = e.paint_bounds
                 /\ (Diffed /\ ~HasEquivalent(last.previous.entries, e))
                      => Announced(DamageEvent(e.paint_bounds, kThisFrame, i - 1))
  /\ (Diffed /\ Len(LastEntries) = 1 /\ Len(last.previous.entries) = 1
        /\ LastEntries[1].paint_bounds = last.previous.entries[1].paint_bounds
        /\ LastEntries[1].layer = last.previous.entries[1].layer)
       => isEmpty(last.structural)

\* a frame has returned whose first record was left out, its bounds having
\* become empty, and whose second record, appended under the translation,
\* had come to have RectD moved by five pixels as bounds: these are the
\* bounds in the FrameDescription and the rectangle announced, the previous
\* frame holding the record with the bounds of the call
C29_Witness ==
  /\ Diffed
  /\ Len(last.entries) = 2 /\ Len(LastEntries) = 1
  /\ isEmpty(last.entries[1].paint_bounds)
  /\ last.entries[2].layer.id = 2
  /\ last.entries[2].paint_bounds = PxRect(15, 15, 27, 27)
  /\ last.entries[2].paint_bounds \notin AppendedBounds(last.entries[2].layer)
  /\ LastEntries[1].paint_bounds = PxRect(15, 15, 27, 27)
  /\ \E j \in 1..Len(last.previous.entries) :
       /\ last.previous.entries[j].layer.id = 2
       /\ last.previous.entries[j].paint_bounds = RectB
  /\ Announced(DamageEvent(PxRect(15, 15, 27, 27), kThisFrame, 1))
  /\ Damaged(PxRect(15, 15, 27, 27))

\* ------------------------------------------------- full damage and the delegates
\* the callbacks of `log`, whose first n = Len(delegates) calls FinishFrame
\* made before FinishDelegates, are those of a frame with full damage of
\* `size`: one OnDamageAdded call per delegate with the full rectangle,
\* kThisFrame and -1, and after these only calls with what a delegate
\* reported and the paint order of that delegate
FullDamageCalls(log, n, delegates, size, events) ==
  LET full == MakeIWH(size.width, size.height)
  IN /\ events = << DamageEvent(full, kThisFrame, -1) >>
     /\ n = Len(delegates)
     /\ \A m \in 1..n :
          log[m] = DamageAddedCall(delegates[m].delegate, full, kThisFrame, -1)
     /\ \A m \in 1..Len(delegates) :
          Cardinality({ k \in 1..Len(log) :
                          /\ log[k].op = "OnDamageAdded"
                          /\ log[k].delegate = delegates[m].delegate
                          /\ log[k].paint_order = -1 }) = 1
     /\ \A k \in (n + 1)..Len(log) :
          log[k].op = "OnDamageAdded" =>
            \E j \in (n + 1)..(k - 1) : \E m \in 1..Len(delegates) :
              /\ log[j].op = "OnReportAdditionalDamage"
              /\ log[j].delegate = delegates[m].delegate
              /\ log[j].delegate /= log[k].delegate
              /\ log[k].rect = log[j].result
              /\ log[k].paint_order = delegates[m].paint_order
              /\ log[k].source = kThisFrame

\* every BackdropFilterLayer of `delegates` whose readback bounds intersect
\* the full rectangle of `size` holds that rectangle in damage_below_; when
\* no delegate has reported yet (`first`), damage_below_ is that rectangle,
\* and it is empty for the other delegates
FullDamageIsBelow(delegates, size, first) ==
  LET full == MakeIWH(size.width, size.height)
  IN \A m \in 1..Len(delegates) :
       LET f == delegate_state[delegates[m].delegate]
       IN /\ intersects(f.readback_bounds_, full) => Contains(f.damage_below_, full)
          /\ first => f.damage_below_ = IF intersects(f.readback_bounds_, full)
                                          THEN full ELSE MakeEmpty

\* C30: in a frame with full damage (no previous frame, or one of another
\* size) every delegate of delegates_ gets one OnDamageAdded call from the
\* diff, with the full rectangle of the frame, kThisFrame and paint order
\* -1, which is below the paint order of every delegate; AddDamageRect is
\* called for no record, so no OnDamageAdded call carries the bounds and the
\* paint order of a record.
C30_FullDamageOneCall ==
  /\ (pc = "delegates" /\ FullDamage(previous_frame_, current_layer_tree_size_)) =>
       /\ FullDamageCalls(res.log, res.structural_calls, delegates_,
                          current_layer_tree_size_, res.events)
       /\ FullDamageIsBelow(delegates_, current_layer_tree_size_, passes = 0)
       /\ \A m \in 1..Len(delegates_) : delegates_[m].paint_order > -1
  /\ (Returned /\ FullDamage(last.previous, last.size)) =>
       /\ FullDamageCalls(last.log, last.structural_calls, last.delegates,
                          last.size, last.events)
       /\ FullDamageIsBelow(last.delegates, last.size, FALSE)

\* a frame with a record and two delegates has returned that was given a
\* previous frame of another size: delegate 1, whose readback bounds reach
\* into the frame, holds the full rectangle as damage below it and has
\* reported its readback bounds, of which delegate 2 was told
C30_Witness ==
  /\ Returned
  /\ ~last.previous.null /\ last.previous.layer_tree_size /= last.size
  /\ LastEntries /= <<>> /\ last.previous.entries /= <<>>
  /\ Len(last.delegates) = 2
  /\ last.structural_calls = 2
  /\ delegate_state[1].damage_below_ = MakeIWH(last.size.width, last.size.height)
  /\ \E k \in 3..Len(last.log) :
       last.log[k] = DamageAddedCall(2, ReadbackBounds(1), kThisFrame,
                                     delegate_state[1].paint_order_)

\* ------------------------------------------------ equal records of one frame
\* the index in `les` of the first record with bounds that equals les[i]
FirstEquivalent(les, i) ==
  CHOOSE j \in 1..i :
    /\ ~isEmpty(les[j].paint_bounds) /\ LayerContributionEq(les[j], les[i])
    /\ \A k \in 1..(j - 1) :
         ~(~isEmpty(les[k].paint_bounds) /\ LayerContributionEq(les[k], les[i]))

\* C31: no two records of the FrameDescription that FinishFrame returns are
\* equal.  Of the records with bounds in layer_entries_ that are equal to one
\* another, the one appended first is in the FrameDescription, with its index
\* in layer_entries_ as paint order, and no record of the FrameDescription
\* has the paint order of one appended later.
C31_FirstOfEqualRecordsRetained ==
  Returned =>
    /\ \A j, k \in 1..Len(LastEntries) :
         j /= k => ~LayerContributionEq(LastEntries[j], LastEntries[k])
    /\ \A i \in 1..Len(last.entries) :
         ~isEmpty(last.entries[i].paint_bounds) =>
           LET f == FirstEquivalent(last.entries, i)
           IN /\ \E k \in 1..Len(LastEntries) :
                   LastEntries[k] = [last.entries[f] EXCEPT !.paint_order = PaintOrder(f)]
              /\ f /= i =>
                   \A k \in 1..Len(LastEntries) :
                     LastEntries[k].paint_order /= PaintOrder(i)

\* a frame has returned in which two layer objects of the same content were
\* appended in one place: the FrameDescription holds the record of the first
C31_Witness ==
  /\ Returned
  /\ Len(last.entries) = 2
  /\ last.entries[1].layer.id /= last.entries[2].layer.id
  /\ ~isEmpty(last.entries[1].paint_bounds)
  /\ LayerContributionEq(last.entries[1], last.entries[2])
  /\ LastEntries = << [last.entries[1] EXCEPT !.paint_order = 0] >>

\* ------------------------------------------- paint orders from frame to frame
\* the caller starts the next frame with the FrameDescription that the frame
\* just returned
NextFrameStarts ==
  /\ Returned
  /\ InitFrameCalled
  /\ previous_frame_' = last.frame_description

\* the records the next frame may append for the layer of record e, the
\* layer being unchanged: those equal to e
Unchanged(e) ==
  { Contribution(c) : c \in { x \in scene.calls : LayerContributionEq(e, Contribution(x)) } }

LastReport(log, d) ==
  LET S == { k \in 1..Len(log) :
               log[k].op = "OnReportAdditionalDamage" /\ log[k].delegate = d }
  IN IF S = {} THEN 0 ELSE CHOOSE k \in S : \A j \in S : j <= k

\* C33: when FinishFrame returns, the last OnReportAdditionalDamage call on
\* every registered delegate was made with the bounds of the area that is
\* returned, and the rectangle it returned, which is the reported_damage of
\* the delegate's record, lies in that area.
C33_ResultIsFixedPoint ==
  Returned =>
    \A j \in 1..Len(last.delegates) :
      LET k == LastReport(last.log, last.delegates[j].delegate)
      IN /\ k /= 0
         /\ last.log[k].rect = MakeFromIRect(last.area)
         /\ last.log[k].result = last.delegates[j].reported_damage
         /\ Contains(MakeFromIRect(last.area), last.log[k].result)

\* a frame has returned after more than one iteration of the loop, with two
\* delegates, one of which reported a rectangle that is in the area and was
\* not in the area the diff gave
C33_Witness ==
  /\ Returned
  /\ last.passes > 1
  /\ Len(last.delegates) = 2
  /\ \E j \in 1..2 :
       LET k == LastReport(last.log, last.delegates[j].delegate)
       IN /\ k /= 0
          /\ ~isEmpty(last.log[k].result)
          /\ ~Contains(MakeFromIRect(last.structural), last.log[k].result)
          /\ Contains(MakeFromIRect(last.area), last.log[k].result)
          /\ last.log[k].rect = MakeFromIRect(last.area)

\* ------------------------------------------------- damage below a delegate
\* the OnDamageAdded calls of `log` on delegate d
DamageAddedTo(log, d) ==
  LET mine(c) == c.op = "OnDamageAdded" /\ c.delegate = d
  IN SelectSeq(log, mine)

\* the damage of call c lies below the delegate with fields f: its paint
\* order precedes the one the delegate has in the frame the damage is from
Below(f, c) ==
  IF c.source = kThisFrame THEN c.paint_order < f.paint_order_
  ELSE c.paint_order < f.previous_paint_order_

\* the rectangles of `calls` that lie below the delegate and intersect its
\* readback bounds, joined in the order of the calls
RECURSIVE JoinedBelow(_, _, _)
JoinedBelow(f, calls, acc) ==
  IF calls = <<>> THEN acc
  ELSE LET c == Head(calls)
       IN JoinedBelow(f, Tail(calls),
            IF Below(f, c) /\ intersects(f.readback_bounds_, c.rect)
              THEN join(acc, c.rect) ELSE acc)

\* C34: when FinishFrame returns, damage_below_ of every registered
\* BackdropFilterLayer is the join of the rectangles it was told of that
\* intersect its readback bounds and whose paint order is less than
\* paint_order_ (source kThisFrame) or previous_paint_order_ (source
\* kPreviousFrame); a rectangle at or above its own order adds nothing, and
\* damage_below_ is empty when there was none below.
C34_DamageBelowOnly ==
  Returned =>
    \A j \in 1..Len(last.delegates) :
      LET d == last.delegates[j].delegate
          f == delegate_state[d]
          calls == DamageAddedTo(last.log, d)
      IN ~f.alternates =>
           /\ f.damage_below_ = JoinedBelow(f, calls, MakeEmpty)
           /\ ~isEmpty(f.damage_below_) =>
                \E k \in 1..Len(calls) :
                  /\ Below(f, calls[k])
                  /\ intersects(f.readback_bounds_, calls[k].rect)

\* a frame has returned in which a delegate was told of a rectangle of the
\* previous frame below it, which it joined to damage_below_, and of a
\* rectangle in its readback bounds at or above its own order, which it did
\* not
C34_Witness ==
  /\ Returned
  /\ \E j \in 1..Len(last.delegates) :
       LET d == last.delegates[j].delegate
           f == delegate_state[d]
           calls == DamageAddedTo(last.log, d)
       IN /\ ~f.alternates
          /\ \E k \in 1..Len(calls) :
               /\ calls[k].source = kPreviousFrame
               /\ Below(f, calls[k])
               /\ intersects(f.readback_bounds_, calls[k].rect)
               /\ Contains(f.damage_below_, calls[k].rect)
          /\ \E k \in 1..Len(calls) :
               /\ ~Below(f, calls[k])
               /\ intersects(f.readback_bounds_, calls[k].rect)
               /\ ~Contains(f.damage_below_, calls[k].rect)

\* ------------------------------------------------ the cached backdrop snapshot
\* C35 as stated: a shared state holds a snapshot only when its
\* no_change_frame_count is above 60, and a frame either adds one to the
\* counter (no damage below the layer) or sets it to 0 (damage below, which
\* also drops the snapshot): after FinishFrame has returned the counter has
\* the value it had on return, that value and one, or 0.
C35_SnapshotAfterQuietFrames ==
  \A s \in 1..Len(shared) :
    /\ shared[s].snapshot => shared[s].no_change_frame_count > kThreshold
    /\ (Returned /\ s <= Len(last.counts)) =>
         shared[s].no_change_frame_count \in {last.counts[s], last.counts[s] + 1, 0}

\* --------------------------------------------- the damage of a Metal drawable
\* the elements of a list
RectsOf(list) == {list[i] : i \in 1..Len(list)}

\* the union of a set of rectangles as one SkIRect: the bounding box of its
\* non-empty members, the empty rectangle when there is none
BoundingBox(rects) ==
  LET filled == {r \in rects : ~isEmpty(r)}
      least(S) == CHOOSE x \in S : \A y \in S : x <= y
      most(S) == CHOOSE x \in S : \A y \in S : x >= y
  IN IF filled = {} THEN MakeEmpty
     ELSE Rect(least({r.left : r \in filled}), least({r.top : r \in filled}),
               most({r.right : r \in filled}), most({r.bottom : r \in filled}))

\* the position in the log of the last frame submitted to texture t, 0 when
\* there is none
LastSubmit(t, log) ==
  LET at == {i \in 1..Len(log) : log[i].texture = t}
  IN IF at = {} THEN 0 ELSE CHOOSE i \in at : \A j \in at : j <= i

\* the frames submitted to other textures since t was last submitted
SinceLastSubmit(t, log) ==
  {i \in (LastSubmit(t, log) + 1)..Len(log) : log[i].texture /= t}

\* what the claim has offered for texture t after the submits of the log
Offered(t, log) ==
  IF LastSubmit(t, log) = 0 THEN <<>>
  ELSE <<BoundingBox(UNION {RectsOf(log[i].frame_damage) : i \in SinceLastSubmit(t, log)})>>

\* C36: a frame acquired for a texture that was submitted before carries as
\* existing damage the union of the frame damage of the frames submitted to
\* other textures since that texture was last submitted (the empty rectangle
\* when there was none); a frame for a texture never submitted carries no
\* existing damage.
C36_ExistingDamage ==
  [][\A f \in frames' \ frames : f.existing_damage = Offered(f.texture, submits)]_vars

\* a frame is held whose texture lags two damaged frames of other textures
C36_Witness ==
  \E f \in frames :
    /\ Cardinality(SinceLastSubmit(f.texture, submits)) >= 2
    /\ LastSubmit(f.texture, submits) > 0
    /\ f.existing_damage = Offered(f.texture, submits)
    /\ \A i \in SinceLastSubmit(f.texture, submits) :
         /\ submits[i].frame_damage /= <<>>
         /\ f.existing_damage[1] \notin RectsOf(submits[i].frame_damage)

\* ------------------------------------------------- the damage of an EGL buffer
\* every pixel of r lies in one of the rectangles
Covered(r, rects) ==
  \A x \in r.left..(r.right - 1) : \A y \in r.top..(r.bottom - 1) :
    \E i \in 1..Len(rects) :
      /\ rects[i].left <= x /\ x < rects[i].right
      /\ rects[i].top <= y /\ y < rects[i].bottom

\* C37 as stated: InitialDamage returns the empty list when buffer age is
\* unsupported or 0, one empty rectangle for age 1, and for age n >= 2
\* rectangles that cover the damage of each of the n - 1 frames last passed
\* to SwapBuffersWithDamage.
C37_InitialDamage ==
  initial /= NoInitial =>
    IF ~has_buffer_age_ \/ initial.age = 0 THEN initial.res = <<>>
    ELSE IF initial.age = 1 THEN initial.res = <<MakeEmpty>>
    ELSE \A k \in (initial.frames - (initial.age - 1) + 1)..initial.frames :
           \A j \in 1..Len(swaps[k]) : Covered(swaps[k][j], initial.res)

\* C38 as stated: after SwapBuffersWithDamage the damage passed in is the
\* newest entry of damage_history_, which holds the damage of the last two
\* frames at most, and a swap-with-damage entry point was called with the
\* rectangles passed in and with their number as the rectangle count.
C38_SwapBuffersWithDamage ==
  swaps /= <<>> =>
    /\ Len(damage_history_) <= 2
    /\ damage_history_ =
         SubSeq(swaps, Len(swaps) - Len(damage_history_) + 1, Len(swaps))
    /\ damage_history_[Len(damage_history_)] = swaps[Len(swaps)]
    /\ egl.proc \in {"eglSwapBuffersWithDamageEXT", "eglSwapBuffersWithDamageKHR"} =>
         /\ egl.rects = RectsToInts(swaps[Len(swaps)])
         /\ egl.n_rects = Len(swaps[Len(swaps)])

\* ------------------------------------------------- resize and commit in step
\* C39 as stated: a BeginResize that has returned saw a Commit accepted and
\* the delegate's commit run on the platform thread; an accepted Commit that
\* has returned saw the delegate's commit run, or a BeginResize begin; a
\* commit block with a stale cookie does not run the delegate's commit.
C39_ResizeAndCommit ==
  /\ resize.state = "returned" => resize.accepted /\ resize.committed
  /\ (commit.state = "returned" /\ commit.accepted) =>
       commit.committed \/ commit.interrupted
  /\ block.stale => ~block.committed

====
